---- MODULE Spec2Model ----
(***************************************************************************)
(* A model of tg_pay_gateway_bot: the registration upserters (EnsureUser,  *)
(* EnsureGroup), the owner bootstrapper (EnsureOwner), the Telegram update *)
(* dispatcher with its command handlers, the lifecycle of main, the store  *)
(* manager, the user repository and the health endpoint.                   *)
(*                                                                         *)
(* Ten specifications share the variables:                                 *)
(*   SpecUsers      - EnsureUser calls and EnsureOwner on the users store  *)
(*   SpecRegistrars - concurrent EnsureUser and EnsureGroup calls          *)
(*   SpecSerial     - the three registrars called one call at a time       *)
(*   SpecDispatch   - defaultHandler processing one update after another   *)
(*   SpecMain       - main: startup, polling, shutdown                     *)
(*   SpecMainLive   - SpecMain with main's goroutine scheduled fairly      *)
(*   SpecManager    - NewManager and Manager.Close as their tests call them*)
(*   SpecCreate     - UserRepository.Create called with every kind of User *)
(*   SpecHealth     - Server.handleHealth answering /healthz requests      *)
(*   SpecUnresponsive - SpecDispatch with a store that may never answer   *)
(*                                                                         *)
(* Strings the code inspects (message text, chat titles) are sequences of  *)
(* one-character strings.  Times are integers in clock ticks.              *)
(***************************************************************************)
EXTENDS Integers, Sequences, FiniteSets, TLC

VARIABLES
    users,      \* the users collection: a sequence of documents
    groups,     \* the groups collection: a sequence of documents
    clock,      \* the latest wall-clock reading handed out by time.Now()
    wk,         \* per worker: the EnsureUser/EnsureGroup call it is inside
    boot,       \* the EnsureOwner call in progress (one at a time: startup)
    userRets,   \* per user id: the successful EnsureUser returns, in order
    groupRets,  \* per chat id: the successful EnsureGroup returns, in order
    lastRet,    \* what the registrar call that returned last has returned
    ncalls      \* registrar calls issued so far

VARIABLES
    wiring,     \* what NewClient was given: owner id and collaborators
    update,     \* the update defaultHandler is handling
    b,          \* whether the handler was handed a bot client (b != nil)
    hpc,        \* where the handling of the update stands
    trace,      \* log records and collaborator calls of this update, in order
    sent,       \* the SendMessage calls of this update: chat id and text
    handled     \* updates delivered so far

VARIABLES
    mpc,        \* where main stands
    lifecycle,  \* what main has done so far, in order
    poll,       \* the goroutine running tgClient.Start
    mongo,      \* the MongoDB client held by the store manager
    exitCode,   \* the process exit status, -1 while it runs
    inflight,   \* updates handed to defaultHandler that it has not finished
    manager     \* the *store.Manager the caller holds: "nil", or "set" when
                \* NewManager returned one (it then holds the client)

storeVars == <<users, groups, clock, wk, boot, userRets, groupRets, lastRet, ncalls>>

dispVars == <<wiring, update, b, hpc, trace, sent, handled>>

mainVars == <<mpc, lifecycle, poll, mongo, exitCode, inflight, manager>>

vars == <<storeVars, dispVars, mainVars>>

(***************************************************************************)
(* Bounds of the model                                                     *)
(***************************************************************************)
MaxClock == 2
NumWorkers == 2
MaxCalls == 3
MaxUpdates == 1
MaxInflight == 1

Workers == 1..NumWorkers

(***************************************************************************)
(* Domain constants                                                        *)
(***************************************************************************)
RoleOwner == "owner"
RoleAdmin == "admin"
RoleUser == "user"

RolePriorityOwner == 3
RolePriorityAdmin == 2
RolePriorityUser == 1

RolePriority(role) ==
    CASE role = RoleOwner -> RolePriorityOwner
      [] role = RoleAdmin -> RolePriorityAdmin
      [] role = RoleUser -> RolePriorityUser
      [] OTHER -> 0

\* time.Millisecond in clock ticks
TicksPerMs == 2

\* a wall clock that may step back between two readings
ReadingsStepBack(last) == 0..MaxClock

\* time.Now(): the wall clock has not moved since the last reading, or has
\* moved on by one tick
Readings(last) == {t \in {last, last + 1} : t <= MaxClock}

\* time.Time.Truncate(d)
Truncate(t, d) == t - (t % d)

(***************************************************************************)
(* Strings as sequences of characters                                      *)
(***************************************************************************)
IsSpace(c) == c \in {" ", "\t", "\n"}

RECURSIVE TrimLeft(_)
TrimLeft(s) ==
    IF s # <<>> /\ IsSpace(Head(s)) THEN TrimLeft(Tail(s)) ELSE s

RECURSIVE TrimRight(_)
TrimRight(s) ==
    IF s # <<>> /\ IsSpace(s[Len(s)])
    THEN TrimRight(SubSeq(s, 1, Len(s) - 1))
    ELSE s

\* strings.TrimSpace
TrimSpace(s) == TrimRight(TrimLeft(s))

(***************************************************************************)
(* The document store: UpdateOne / UpdateMany with $set and $setOnInsert   *)
(***************************************************************************)
\* the document {key: id} of an equality filter
FilterDoc(key, id) == [k \in {key} |-> id]

\* merge(dst, updates): every field of updates overwrites dst
merge(dst, updates) ==
    [f \in (DOMAIN dst) \cup (DOMAIN updates) |->
        IF f \in DOMAIN updates THEN updates[f] ELSE dst[f]]

\* positions of the documents matching {key: id}
Matching(coll, key, id) ==
    {i \in 1..Len(coll) : key \in DOMAIN coll[i] /\ coll[i][key] = id}

\* the matching documents themselves
DocsFor(coll, key, id) == {coll[i] : i \in Matching(coll, key, id)}

\* a slip: an upsert that inserts without looking for a match
UpdateOneBlindInsert(coll, key, id, setDoc, setOnInsertDoc, upsert) ==
    [docs |-> Append(coll,
                merge(merge(FilterDoc(key, id), setOnInsertDoc), setDoc)),
     MatchedCount |-> 0, UpsertedCount |-> 1]

\* UpdateOne(filter {key: id}, {$set: setDoc, $setOnInsert: setOnInsertDoc},
\* upsert): one atomic operation of the store
UpdateOne(coll, key, id, setDoc, setOnInsertDoc, upsert) ==
    LET found == Matching(coll, key, id) IN
    IF found # {}
    THEN LET i == CHOOSE j \in found : \A k \in found : j <= k IN
         [docs |-> [coll EXCEPT ![i] = merge(coll[i], setDoc)],
          MatchedCount |-> 1, UpsertedCount |-> 0]
    ELSE IF upsert
    THEN [docs |-> Append(coll,
                     merge(merge(FilterDoc(key, id), setOnInsertDoc), setDoc)),
          MatchedCount |-> 0, UpsertedCount |-> 1]
    ELSE [docs |-> coll, MatchedCount |-> 0, UpsertedCount |-> 0]

(***************************************************************************)
(* The update documents the registrars send                                *)
(***************************************************************************)
\* a slip: the touch leaves updated_at alone
EnsureUserSetSeenOnly(now) == [last_seen_at |-> now]

\* a slip: role written by "$set" instead of "$setOnInsert"
EnsureUserSetResetsRole(now) ==
    [updated_at |-> now, last_seen_at |-> now, role |-> RoleUser]

\* a slip: created_at written by "$set" as well
EnsureUserSetStampsCreated(now) ==
    [updated_at |-> now, last_seen_at |-> now, created_at |-> now]

\* EnsureUser: "$set"
EnsureUserSet(now) == [updated_at |-> now, last_seen_at |-> now]

\* a slip: a new user is inserted with the owner role
EnsureUserSetOnInsertAsOwner(userID, now) ==
    [user_id |-> userID, role |-> RoleOwner, created_at |-> now]

\* EnsureUser: "$setOnInsert"
EnsureUserSetOnInsert(userID, now) ==
    [user_id |-> userID, role |-> RoleUser, created_at |-> now]

\* a slip: joined_at written by "$set" as well
EnsureGroupSetStampsJoined(now, title) ==
    LET updateTitle == TrimSpace(title) IN
    IF updateTitle # <<>>
    THEN [last_seen_at |-> now, joined_at |-> now, title |-> updateTitle]
    ELSE [last_seen_at |-> now, joined_at |-> now]

\* a slip: the trimmed title written even when it is blank
EnsureGroupSetAlwaysTitle(now, title) ==
    [last_seen_at |-> now, title |-> TrimSpace(title)]

\* EnsureGroup: setFields, with the title only when it is not blank
EnsureGroupSet(now, title) ==
    LET updateTitle == TrimSpace(title) IN
    IF updateTitle # <<>>
    THEN [last_seen_at |-> now, title |-> updateTitle]
    ELSE [last_seen_at |-> now]

\* EnsureGroup: "$setOnInsert"
EnsureGroupSetOnInsert(chatID, now) == [chat_id |-> chatID, joined_at |-> now]

\* a slip: the demotion filter without its role condition's complement,
\* matching the configured owner instead of the others
DemoteFilterInverted(doc, ownerID) ==
    /\ "role" \in DOMAIN doc
    /\ doc["role"] = RoleOwner
    /\ "user_id" \in DOMAIN doc
    /\ doc["user_id"] = ownerID

\* EnsureOwner: the filter of the demotion, role == owner and user_id != ownerID
DemoteFilter(doc, ownerID) ==
    /\ "role" \in DOMAIN doc
    /\ doc["role"] = RoleOwner
    /\ ~("user_id" \in DOMAIN doc /\ doc["user_id"] = ownerID)

\* EnsureOwner: "$set" of the demotion
DemoteSet(now) == [role |-> RoleAdmin, updated_at |-> now]

\* EnsureOwner: UpdateMany(demote filter, demote $set)
DemoteOwners(coll, ownerID, now) ==
    [docs |-> [i \in 1..Len(coll) |->
                 IF DemoteFilter(coll[i], ownerID)
                 THEN merge(coll[i], DemoteSet(now))
                 ELSE coll[i]],
     ModifiedCount |->
         Cardinality({i \in 1..Len(coll) : DemoteFilter(coll[i], ownerID)})]

\* a slip: created_at written by "$set" of the upsert
OwnerSetStampsCreated(ownerID, now) ==
    [user_id |-> ownerID, role |-> RoleOwner, updated_at |-> now,
     created_at |-> now]

\* EnsureOwner: "$set" of the upsert
OwnerSet(ownerID, now) ==
    [user_id |-> ownerID, role |-> RoleOwner, updated_at |-> now]

\* EnsureOwner: "$setOnInsert" of the upsert
OwnerSetOnInsert(now) == [created_at |-> now]

(***************************************************************************)
(* Inputs of the registrar calls                                           *)
(***************************************************************************)
\* user ids a call may carry; 0 is the missing id
UserIds == {0, 5, 7}

\* configured owner ids across restarts; 0 is the missing id
OwnerIds == {0, 5, 9}

\* chat ids a call may carry; 0 is the missing id
ChatIds == {0, 20}

\* chat titles: blank, whitespace only, plain, padded
Titles == {<<>>, <<" ">>, <<"A">>, <<" ", "B", " ">>}

\* user ids the store may hold before the process starts
PriorIds == {5, 7}

PriorRoles == {RoleOwner, RoleUser}

\* a users document written by an earlier run
PriorUser(id, role) ==
    [user_id |-> id, role |-> role, created_at |-> 0, updated_at |-> 0,
     last_seen_at |-> 0]

\* the users collections an earlier run may have left behind
PriorUsers ==
    {<<>>}
    \cup {<<PriorUser(5, r)>> : r \in PriorRoles}
    \cup {<<PriorUser(7, r)>> : r \in PriorRoles}
    \cup {<<PriorUser(5, r), PriorUser(7, q)>> : r \in PriorRoles, q \in PriorRoles}

IdleCall == [pc |-> "idle", op |-> "none", id |-> 0, title |-> <<>>, now |-> 0,
             startAt |-> 0]

IdleBoot == [pc |-> "idle", ownerID |-> 0, now |-> 0, stale |-> {}, demoted |-> 0]

\* the (created, err) pair a registrar call returns
Ret(op, id, created, err) == [op |-> op, id |-> id, created |-> created, err |-> err]

\* a field of a document, or the zero value when the document lacks it
Field(doc, f, zero) == IF f \in DOMAIN doc THEN doc[f] ELSE zero

\* a successful upsert as it is remembered: what it returned, whether a
\* document matched, how many returns for the id preceded its entry, the
\* title it carried, and the creation stamp read back after it
Seen(created, existed, startAt, title, stamp) ==
    [created |-> created, existed |-> existed, startAt |-> startAt,
     title |-> title, stamp |-> stamp]

\* the creation stamp (field f) of the first document matching {key: id}
StampOf(coll, key, id, f) ==
    LET found == Matching(coll, key, id) IN
    IF found = {} THEN 0
    ELSE Field(coll[CHOOSE j \in found : \A k \in found : j <= k], f, 0)

\* positions of the documents whose role is owner
OwnerRecords(coll) ==
    {i \in 1..Len(coll) : "role" \in DOMAIN coll[i] /\ coll[i]["role"] = RoleOwner}

\* the goroutine that takes the next call: the workers are interchangeable,
\* so it is the lowest one that is idle (0 when all are busy)
FreeWorker ==
    IF \E p \in Workers : wk[p].pc = "idle"
    THEN CHOOSE p \in Workers :
             wk[p].pc = "idle" /\ \A q \in Workers : wk[q].pc = "idle" => p <= q
    ELSE 0

InitStore ==
    /\ groups = <<>>
    /\ clock = 0
    /\ wk = [p \in Workers |-> IdleCall]
    /\ boot = IdleBoot
    /\ userRets = [u \in UserIds |-> <<>>]
    /\ groupRets = [c \in ChatIds |-> <<>>]
    /\ lastRet = Ret("none", 0, FALSE, FALSE)
    /\ ncalls = 0

(***************************************************************************)
(* EnsureUser                                                              *)
(***************************************************************************)
\* a slip: the user id is not checked, a zero id goes on to the upsert
EnsureUserCallUnchecked(p, ctxOk, userID) ==
    /\ p = FreeWorker
    /\ ncalls < MaxCalls
    /\ ncalls' = ncalls + 1
    /\ IF ~ctxOk
       THEN /\ lastRet' = Ret("user", userID, FALSE, TRUE)
            /\ UNCHANGED <<users, groups, clock, wk, boot, userRets, groupRets, dispVars, mainVars>>
       ELSE \E t \in Readings(clock) :
            /\ clock' = t
            /\ wk' = [wk EXCEPT ![p] =
                        [pc |-> "update", op |-> "user", id |-> userID,
                         title |-> <<>>, now |-> Truncate(t, TicksPerMs),
                         startAt |-> Len(userRets[userID])]]
            /\ UNCHANGED <<users, groups, boot, userRets, groupRets, lastRet, dispVars, mainVars>>

\* entry: the argument checks, then now := time.Now().UTC().Truncate(ms)
EnsureUserCall(p, ctxOk, userID) ==
    /\ p = FreeWorker
    /\ ncalls < MaxCalls
    /\ ncalls' = ncalls + 1
    /\ IF ~ctxOk \/ userID = 0
       THEN /\ lastRet' = Ret("user", userID, FALSE, TRUE)
            /\ UNCHANGED <<users, groups, clock, wk, boot, userRets, groupRets, dispVars, mainVars>>
       ELSE \E t \in Readings(clock) :
            /\ clock' = t
            /\ wk' = [wk EXCEPT ![p] =
                        [pc |-> "update", op |-> "user", id |-> userID,
                         title |-> <<>>, now |-> Truncate(t, TicksPerMs),
                         startAt |-> Len(userRets[userID])]]
            /\ UNCHANGED <<users, groups, boot, userRets, groupRets, lastRet, dispVars, mainVars>>

\* a slip: read-check-then-write, inserting when the lookup made on entry
\* found nothing, instead of one atomic upsert
EnsureUserReadThenWrite(p) ==
    /\ wk[p].pc = "update"
    /\ wk[p].op = "user"
    /\ LET result == IF wk[p].startAt = 0
                     THEN UpdateOneBlindInsert(users, "user_id", wk[p].id,
                               EnsureUserSet(wk[p].now),
                               EnsureUserSetOnInsert(wk[p].id, wk[p].now), TRUE)
                     ELSE UpdateOne(users, "user_id", wk[p].id,
                               EnsureUserSet(wk[p].now),
                               EnsureUserSetOnInsert(wk[p].id, wk[p].now), FALSE)
           created == result.UpsertedCount > 0
       IN /\ users' = result.docs
          /\ lastRet' = Ret("user", wk[p].id, created, FALSE)
          /\ userRets' = [userRets EXCEPT ![wk[p].id] =
                            Append(@, Seen(created,
                                           Matching(users, "user_id", wk[p].id) # {},
                                           wk[p].startAt, <<>>,
                                           StampOf(result.docs, "user_id", wk[p].id,
                                                   "created_at")))]
    /\ wk' = [wk EXCEPT ![p] = IdleCall]
    /\ UNCHANGED <<groups, clock, boot, groupRets, ncalls, dispVars, mainVars>>

\* the UpdateOne with upsert, and the return
EnsureUserUpdate(p) ==
    /\ wk[p].pc = "update"
    /\ wk[p].op = "user"
    /\ LET result == UpdateOne(users, "user_id", wk[p].id,
                               EnsureUserSet(wk[p].now),
                               EnsureUserSetOnInsert(wk[p].id, wk[p].now), TRUE)
           created == result.UpsertedCount > 0
       IN /\ users' = result.docs
          /\ lastRet' = Ret("user", wk[p].id, created, FALSE)
          /\ userRets' = [userRets EXCEPT ![wk[p].id] =
                            Append(@, Seen(created,
                                           Matching(users, "user_id", wk[p].id) # {},
                                           wk[p].startAt, <<>>,
                                           StampOf(result.docs, "user_id", wk[p].id,
                                                   "created_at")))]
    /\ wk' = [wk EXCEPT ![p] = IdleCall]
    /\ UNCHANGED <<groups, clock, boot, groupRets, ncalls, dispVars, mainVars>>

\* the store call fails: "ensure user: ..." is returned
EnsureUserFail(p) ==
    /\ wk[p].pc = "update"
    /\ wk[p].op = "user"
    /\ lastRet' = Ret("user", wk[p].id, FALSE, TRUE)
    /\ wk' = [wk EXCEPT ![p] = IdleCall]
    /\ UNCHANGED <<users, groups, clock, boot, userRets, groupRets, ncalls, dispVars, mainVars>>

(***************************************************************************)
(* EnsureGroup                                                             *)
(***************************************************************************)
\* entry: the argument checks, then now := time.Now().UTC().Truncate(ms)
EnsureGroupCall(p, ctxOk, chatID, title) ==
    /\ p = FreeWorker
    /\ ncalls < MaxCalls
    /\ ncalls' = ncalls + 1
    /\ IF ~ctxOk \/ chatID = 0
       THEN /\ lastRet' = Ret("group", chatID, FALSE, TRUE)
            /\ UNCHANGED <<users, groups, clock, wk, boot, userRets, groupRets, dispVars, mainVars>>
       ELSE \E t \in Readings(clock) :
            /\ clock' = t
            /\ wk' = [wk EXCEPT ![p] =
                        [pc |-> "update", op |-> "group", id |-> chatID,
                         title |-> title, now |-> Truncate(t, TicksPerMs),
                         startAt |-> Len(groupRets[chatID])]]
            /\ UNCHANGED <<users, groups, boot, userRets, groupRets, lastRet, dispVars, mainVars>>

\* the UpdateOne with upsert, and the return
EnsureGroupUpdate(p) ==
    /\ wk[p].pc = "update"
    /\ wk[p].op = "group"
    /\ LET result == UpdateOne(groups, "chat_id", wk[p].id,
                               EnsureGroupSet(wk[p].now, wk[p].title),
                               EnsureGroupSetOnInsert(wk[p].id, wk[p].now), TRUE)
           created == result.UpsertedCount > 0
       IN /\ groups' = result.docs
          /\ lastRet' = Ret("group", wk[p].id, created, FALSE)
          /\ groupRets' = [groupRets EXCEPT ![wk[p].id] =
                             Append(@, Seen(created,
                                            Matching(groups, "chat_id", wk[p].id) # {},
                                            wk[p].startAt, wk[p].title,
                                            StampOf(result.docs, "chat_id", wk[p].id,
                                                    "joined_at")))]
    /\ wk' = [wk EXCEPT ![p] = IdleCall]
    /\ UNCHANGED <<users, clock, boot, userRets, ncalls, dispVars, mainVars>>

\* the store call fails: "ensure group: ..." is returned
EnsureGroupFail(p) ==
    /\ wk[p].pc = "update"
    /\ wk[p].op = "group"
    /\ lastRet' = Ret("group", wk[p].id, FALSE, TRUE)
    /\ wk' = [wk EXCEPT ![p] = IdleCall]
    /\ UNCHANGED <<users, groups, clock, boot, userRets, groupRets, ncalls, dispVars, mainVars>>

(***************************************************************************)
(* EnsureOwner                                                             *)
(***************************************************************************)
\* entry: the argument checks, then now := time.Now().UTC()
EnsureOwnerCall(ctxOk, ownerID) ==
    /\ boot.pc = "idle"
    /\ ncalls < MaxCalls
    /\ ncalls' = ncalls + 1
    /\ IF ~ctxOk \/ ownerID = 0
       THEN /\ lastRet' = Ret("owner", ownerID, FALSE, TRUE)
            /\ UNCHANGED <<users, groups, clock, wk, boot, userRets, groupRets, dispVars, mainVars>>
       ELSE \E t \in Readings(clock) :
            /\ clock' = t
            /\ boot' = [pc |-> "demote", ownerID |-> ownerID, now |-> t,
                        stale |-> {users[i]["user_id"] : i \in OwnerRecords(users)}
                                     \ {ownerID},
                        demoted |-> 0]
            /\ UNCHANGED <<users, groups, wk, userRets, groupRets, lastRet, dispVars, mainVars>>

\* a slip: step 1 is counted but demotes nobody
EnsureOwnerDemoteSkipped ==
    /\ boot.pc = "demote"
    /\ LET demoteResult == DemoteOwners(users, boot.ownerID, boot.now) IN
       /\ users' = users
       /\ boot' = [boot EXCEPT !.pc = "upsert",
                               !.demoted = demoteResult.ModifiedCount]
    /\ UNCHANGED <<groups, clock, wk, userRets, groupRets, lastRet, ncalls, dispVars, mainVars>>

\* step 1: UpdateMany demotes every other owner to admin
EnsureOwnerDemote ==
    /\ boot.pc = "demote"
    /\ LET demoteResult == DemoteOwners(users, boot.ownerID, boot.now) IN
       /\ users' = demoteResult.docs
       /\ boot' = [boot EXCEPT !.pc = "upsert",
                               !.demoted = demoteResult.ModifiedCount]
    /\ UNCHANGED <<groups, clock, wk, userRets, groupRets, lastRet, ncalls, dispVars, mainVars>>

\* a slip: the error of step 1 is dropped and step 2 goes ahead
EnsureOwnerDemoteFailGoesOn ==
    /\ boot.pc = "demote"
    /\ boot' = [boot EXCEPT !.pc = "upsert"]
    /\ UNCHANGED <<users, groups, clock, wk, userRets, groupRets, lastRet, ncalls, dispVars, mainVars>>

\* step 1 fails: "demote previous owners: ..." is returned
EnsureOwnerDemoteFail ==
    /\ boot.pc = "demote"
    /\ lastRet' = Ret("owner", boot.ownerID, FALSE, TRUE)
    /\ boot' = IdleBoot
    /\ UNCHANGED <<users, groups, clock, wk, userRets, groupRets, ncalls, dispVars, mainVars>>

\* step 2: UpdateOne upserts the configured owner, and the return
EnsureOwnerUpsert ==
    /\ boot.pc = "upsert"
    /\ LET upsertResult == UpdateOne(users, "user_id", boot.ownerID,
                                     OwnerSet(boot.ownerID, boot.now),
                                     OwnerSetOnInsert(boot.now), TRUE)
       IN /\ users' = upsertResult.docs
          /\ lastRet' = Ret("owner", boot.ownerID,
                            upsertResult.UpsertedCount > 0, FALSE)
    /\ boot' = IdleBoot
    /\ UNCHANGED <<groups, clock, wk, userRets, groupRets, ncalls, dispVars, mainVars>>

\* a slip: a failed step 2 gives the demoted owners the role back
EnsureOwnerUpsertFailRollsBack ==
    /\ boot.pc = "upsert"
    /\ users' = [i \in 1..Len(users) |->
                   IF Field(users[i], "user_id", 0) \in boot.stale
                   THEN merge(users[i], [role |-> RoleOwner])
                   ELSE users[i]]
    /\ lastRet' = Ret("owner", boot.ownerID, FALSE, TRUE)
    /\ boot' = IdleBoot
    /\ UNCHANGED <<groups, clock, wk, userRets, groupRets, ncalls, dispVars, mainVars>>

\* step 2 fails: "ensure owner: ..." is returned, the demotions stay
EnsureOwnerUpsertFail ==
    /\ boot.pc = "upsert"
    /\ lastRet' = Ret("owner", boot.ownerID, FALSE, TRUE)
    /\ boot' = IdleBoot
    /\ UNCHANGED <<users, groups, clock, wk, userRets, groupRets, ncalls, dispVars, mainVars>>

\* the users collection: EnsureUser calls and startup's EnsureOwner
NextUsers ==
    \/ \E p \in Workers, ctxOk \in BOOLEAN, userID \in UserIds :
          EnsureUserCall(p, ctxOk, userID)
    \/ \E p \in Workers : EnsureUserUpdate(p)
    \/ \E p \in Workers : EnsureUserFail(p)
    \/ \E ctxOk \in BOOLEAN, ownerID \in OwnerIds : EnsureOwnerCall(ctxOk, ownerID)
    \/ EnsureOwnerDemote
    \/ EnsureOwnerDemoteFail
    \/ EnsureOwnerUpsert
    \/ EnsureOwnerUpsertFail

\* the registrars the dispatcher calls, on a fresh store: EnsureUser and
\* EnsureGroup calls of concurrently handled updates
NextRegistrars ==
    \/ \E p \in Workers, ctxOk \in BOOLEAN, userID \in UserIds :
          EnsureUserCall(p, ctxOk, userID)
    \/ \E p \in Workers : EnsureUserUpdate(p)
    \/ \E p \in Workers : EnsureUserFail(p)
    \/ \E p \in Workers, ctxOk \in BOOLEAN, chatID \in ChatIds, title \in Titles :
          EnsureGroupCall(p, ctxOk, chatID, title)
    \/ \E p \in Workers : EnsureGroupUpdate(p)
    \/ \E p \in Workers : EnsureGroupFail(p)

\* a chat value: id, platform type and title; the zero value of models.Chat
Chat(id, type, title) == [id |-> id, type |-> type, title |-> title]

NoChat == Chat(0, "", <<>>)

\* an update: which payload it carries, the sender (0: From is nil), the
\* chat, the text (a callback's data), and for a callback the kind of
\* message attached to it
Update(kind, from, chat, text, via) ==
    [kind |-> kind, from |-> from, chat |-> chat, text |-> text, via |-> via]

\* update == nil
NilUpdate == Update("nil", 0, NoChat, <<>>, "none")

\* no client has been built
NoWiring ==
    [botOwnerID |-> 0, appEnv |-> "", userRegistrar |-> FALSE,
     groupRegistrar |-> FALSE, mongoChecker |-> FALSE, userFetcher |-> FALSE,
     statsProvider |-> FALSE]

\* the dispatcher is not part of the run
DispatcherOff ==
    /\ wiring = NoWiring
    /\ update = NilUpdate
    /\ b = FALSE
    /\ hpc = "off"
    /\ trace = <<>>
    /\ sent = <<>>
    /\ handled = 0

\* main is not part of the run
MainOff ==
    /\ mpc = "off"
    /\ lifecycle = <<>>
    /\ poll = "notStarted"
    /\ mongo = "none"
    /\ exitCode = -1
    /\ inflight = 0
    /\ manager = "nil"

InitUsers ==
    /\ users \in PriorUsers
    /\ InitStore
    /\ DispatcherOff
    /\ MainOff

InitRegistrars ==
    /\ users = <<>>
    /\ InitStore
    /\ DispatcherOff
    /\ MainOff

SpecUsers == InitUsers /\ [][NextUsers]_vars

SpecRegistrars == InitRegistrars /\ [][NextRegistrars]_vars

\* no registrar call is in progress
Quiet ==
    /\ \A p \in Workers : wk[p].pc = "idle"
    /\ boot.pc = "idle"

\* the three registrars called one call after the other, as their tests
\* call them, with every argument: a nil or a live context, a zero or a
\* non-zero id
NextSerial ==
    \/ \E p \in Workers, ctxOk \in BOOLEAN, userID \in UserIds :
          Quiet /\ EnsureUserCall(p, ctxOk, userID)
    \/ \E p \in Workers : EnsureUserUpdate(p)
    \/ \E p \in Workers : EnsureUserFail(p)
    \/ \E p \in Workers, ctxOk \in BOOLEAN, chatID \in ChatIds, title \in Titles :
          Quiet /\ EnsureGroupCall(p, ctxOk, chatID, title)
    \/ \E p \in Workers : EnsureGroupUpdate(p)
    \/ \E p \in Workers : EnsureGroupFail(p)
    \/ \E ctxOk \in BOOLEAN, ownerID \in OwnerIds :
          Quiet /\ EnsureOwnerCall(ctxOk, ownerID)
    \/ EnsureOwnerDemote
    \/ EnsureOwnerDemoteFail
    \/ EnsureOwnerUpsert
    \/ EnsureOwnerUpsertFail

SpecSerial == InitRegistrars /\ [][NextSerial]_vars

(***************************************************************************)
(* Claims about the registrars                                             *)
(***************************************************************************)
\* the step in which the EnsureOwner call in progress returns nil
OwnerReturnsOk ==
    /\ boot.pc = "upsert"
    /\ boot'.pc = "idle"
    /\ lastRet'.op = "owner"
    /\ ~lastRet'.err

\* C1: whatever the users store held before (several owners included), when
\* EnsureOwner(X) returns success exactly one record has role owner, it is
\* X's record, and every record that had role owner with another user_id
\* has role admin.
C1_OneOwnerAfterEnsureOwner ==
    [][OwnerReturnsOk =>
         /\ Cardinality(OwnerRecords(users')) = 1
         /\ \A i \in OwnerRecords(users') : users'[i]["user_id"] = boot.ownerID
         /\ \A u \in boot.stale :
               /\ Matching(users', "user_id", u) # {}
               /\ \A d \in DocsFor(users', "user_id", u) : d["role"] = RoleAdmin
      ]_storeVars

\* EnsureOwner(9) has returned success on a store that held two other owners
C1_Witness ==
    /\ lastRet = Ret("owner", 9, TRUE, FALSE)
    /\ \A u \in PriorIds :
          \E d \in DocsFor(users, "user_id", u) : d["role"] = RoleAdmin
    /\ \E d \in DocsFor(users, "user_id", 9) : d["role"] = RoleOwner

\* C2: for a user id that is not in the store, EnsureUser calls in sequence
\* return created=true first and created=false afterwards, leave exactly one
\* record with that user_id, and every call reads back the same created_at.
C2_EnsureUserTwice ==
    \A u \in UserIds :
        LET r == userRets[u] IN
        /\ r # <<>> => Cardinality(Matching(users, "user_id", u)) = 1
        /\ \A j \in 1..Len(r) :
              /\ (j = 1 /\ ~r[j].existed) => r[j].created
              /\ j > 1 => ~r[j].created /\ r[j].stamp = r[j - 1].stamp
              /\ \E d \in DocsFor(users, "user_id", u) :
                    "created_at" \in DOMAIN d /\ d["created_at"] = r[j].stamp

\* two EnsureUser(5) calls, one after the other, on a store without user 5,
\* the second one at a later clock reading
C2_Witness ==
    /\ Len(userRets[5]) = 2
    /\ ~userRets[5][1].existed
    /\ userRets[5][2].startAt = 1
    /\ \E d \in DocsFor(users, "user_id", 5) : d["updated_at"] > d["created_at"]

\* C5: when several EnsureUser calls for the same unregistered user id (or
\* several EnsureGroup calls for the same unregistered chat id) run
\* concurrently, the store ends with exactly one record for the id and
\* exactly one of the calls reports created=true.
C5_ConcurrentUpsertsCreateOnce ==
    /\ \A u \in UserIds :
          /\ Cardinality(Matching(users, "user_id", u)) <= 1
          /\ userRets[u] # <<>> =>
                /\ Cardinality(Matching(users, "user_id", u)) = 1
                /\ Cardinality({j \in 1..Len(userRets[u]) : userRets[u][j].created}) = 1
    /\ \A c \in ChatIds :
          /\ Cardinality(Matching(groups, "chat_id", c)) <= 1
          /\ groupRets[c] # <<>> =>
                /\ Cardinality(Matching(groups, "chat_id", c)) = 1
                /\ Cardinality({j \in 1..Len(groupRets[c]) : groupRets[c][j].created}) = 1

\* two upserts for the same new id have returned, the second of them
\* entered before the first returned, while a third is still in flight
C5_Witness ==
    \/ /\ Len(userRets[5]) = 2
       /\ userRets[5][2].startAt = 0
       /\ \E p \in Workers : wk[p].pc = "update" /\ wk[p].op = "group"
    \/ /\ Len(groupRets[20]) = 2
       /\ groupRets[20][2].startAt = 0
       /\ \E p \in Workers : wk[p].pc = "update" /\ wk[p].op = "user"

\* the step in which worker p's EnsureUser call returns created=false
UserTouched(p) ==
    /\ wk[p].pc = "update"
    /\ wk[p].op = "user"
    /\ wk'[p].pc = "idle"
    /\ lastRet' = Ret("user", wk[p].id, FALSE, FALSE)

\* C7: EnsureUser on a registered user changes only updated_at and
\* last_seen_at, both to the call's now; role, created_at and user_id stay,
\* so an owner or admin keeps the role; no other record changes.
C7_EnsureUserFrame ==
    [][\A p \in Workers : UserTouched(p) =>
          /\ Len(users') = Len(users)
          /\ \A i \in 1..Len(users) :
                IF users[i]["user_id"] = wk[p].id
                THEN /\ DOMAIN users'[i] = DOMAIN users[i] \cup {"updated_at", "last_seen_at"}
                     /\ users'[i]["updated_at"] = wk[p].now
                     /\ users'[i]["last_seen_at"] = wk[p].now
                     /\ \A f \in DOMAIN users[i] \ {"updated_at", "last_seen_at"} :
                           users'[i][f] = users[i][f]
                ELSE users'[i] = users[i]
      ]_storeVars

\* EnsureUser has just touched, at a later time, a record whose role is
\* owner or admin
C7_Witness ==
    /\ lastRet.op = "user"
    /\ ~lastRet.err
    /\ ~lastRet.created
    /\ \E d \in DocsFor(users, "user_id", lastRet.id) :
          /\ d["role"] \in {RoleOwner, RoleAdmin}
          /\ d["last_seen_at"] = d["updated_at"]
          /\ d["updated_at"] > d["created_at"]

\* the stored title of a group document, empty when it has none
TitleOf(doc) == Field(doc, "title", <<>>)

\* C8: once a group's stored title is a non-blank T, an EnsureGroup call for
\* the chat with an empty or whitespace-only title leaves it T; a stored
\* title only ever changes to the trimmed form of a non-blank input.
C8_TitleNeverBlanked ==
    [][\A i \in 1..Len(groups) :
          /\ Len(groups') >= Len(groups)
          /\ TitleOf(groups'[i]) # TitleOf(groups[i]) =>
                \E p \in Workers :
                    /\ wk[p].pc = "update" /\ wk[p].op = "group"
                    /\ wk'[p].pc = "idle"
                    /\ wk[p].id = groups[i]["chat_id"]
                    /\ TrimSpace(wk[p].title) # <<>>
                    /\ TitleOf(groups'[i]) = TrimSpace(wk[p].title)
          /\ TitleOf(groups[i]) # <<>> =>
                /\ TitleOf(groups'[i]) # <<>>
                /\ TitleOf(groups'[i]) = TrimSpace(TitleOf(groups'[i]))
      ]_storeVars

\* a titled group has then been seen with a whitespace-only title and with
\* an empty title
C8_Witness ==
    /\ Len(groupRets[20]) = 3
    /\ TrimSpace(groupRets[20][1].title) # <<>>
    /\ groupRets[20][2].title = <<" ">>
    /\ groupRets[20][2].startAt = 1
    /\ groupRets[20][3].title = <<>>
    /\ groupRets[20][3].startAt = 2
    /\ \E d \in DocsFor(groups, "chat_id", 20) : TitleOf(d) # <<>>

(***************************************************************************)
(* Strings: the operations of package strings the dispatcher uses          *)
(***************************************************************************)
UpperCase == <<"A", "B", "C", "D", "E", "F", "G", "H", "I", "J", "K", "L", "M",
               "N", "O", "P", "Q", "R", "S", "T", "U", "V", "W", "X", "Y", "Z">>

LowerCase == <<"a", "b", "c", "d", "e", "f", "g", "h", "i", "j", "k", "l", "m",
               "n", "o", "p", "q", "r", "s", "t", "u", "v", "w", "x", "y", "z">>

\* strings.ToLower
ToLower(s) ==
    [i \in 1..Len(s) |->
        IF \E k \in 1..Len(UpperCase) : UpperCase[k] = s[i]
        THEN LowerCase[CHOOSE k \in 1..Len(UpperCase) : UpperCase[k] = s[i]]
        ELSE s[i]]

\* strings.HasPrefix
HasPrefix(s, prefix) ==
    /\ Len(s) >= Len(prefix)
    /\ SubSeq(s, 1, Len(prefix)) = prefix

\* strings.TrimPrefix
TrimPrefix(s, prefix) ==
    IF HasPrefix(s, prefix) THEN SubSeq(s, Len(prefix) + 1, Len(s)) ELSE s

\* strings.Index for a one-character substring, counted from 0; -1 if absent
Index(s, c) ==
    IF \E i \in 1..Len(s) : s[i] = c
    THEN (CHOOSE i \in 1..Len(s) : s[i] = c /\ \A j \in 1..(i - 1) : s[j] # c) - 1
    ELSE -1

\* the decimal digits
Digits == <<"0", "1", "2", "3", "4", "5", "6", "7", "8", "9">>

\* strconv.FormatInt(n, 10) for n >= 0
RECURSIVE FormatInt(_)
FormatInt(n) ==
    IF n < Len(Digits)
    THEN Digits[n + 1]
    ELSE FormatInt(n \div Len(Digits)) \o Digits[(n % Len(Digits)) + 1]

\* strings.Join(lines, "\n")
RECURSIVE Join(_)
Join(lines) ==
    IF lines = <<>> THEN ""
    ELSE IF Len(lines) = 1 THEN lines[1]
    ELSE lines[1] \o "\n" \o Join(Tail(lines))

\* the role strings a users document may hold, spelled out
Spelled ==
    {<<"owner", <<"o", "w", "n", "e", "r">>>>,
     <<"admin", <<"a", "d", "m", "i", "n">>>>,
     <<"user", <<"u", "s", "e", "r">>>>,
     <<"guest", <<"g", "u", "e", "s", "t">>>>,
     <<" owner ", <<" ", "o", "w", "n", "e", "r", " ">>>>,
     <<"", <<>>>>}

\* the characters of a role string
Chars(str) == (CHOOSE e \in Spelled : e[1] = str)[2]

\* the role string with the given characters
Text(chars) == (CHOOSE e \in Spelled : e[2] = chars)[1]

(***************************************************************************)
(* The dispatcher: metadata extraction and routing                         *)
(***************************************************************************)
\* updateMeta
Meta(userID, chatID, text, updateType, chatType, chatTitle) ==
    [userID |-> userID, chatID |-> chatID, text |-> text,
     updateType |-> updateType, chatType |-> chatType, chatTitle |-> chatTitle]

\* chatTitle(chat): the trimmed title
chatTitle(chat) == TrimSpace(chat.title)

\* messageChatID(msg): the chat id of the message attached to a callback
messageChatID(u) ==
    IF u.via \in {"message", "inaccessible"} THEN u.chat.id ELSE 0

\* messageChatType(msg)
messageChatType(u) ==
    IF u.via \in {"message", "inaccessible"} THEN u.chat.type ELSE ""

\* messageChatTitle(msg)
messageChatTitle(u) ==
    IF u.via \in {"message", "inaccessible"} THEN chatTitle(u.chat) ELSE <<>>

\* a slip: the two membership cases are missing
extractUpdateMetaNoMembers(u) ==
    CASE u.kind \in {"message", "edited_message"} ->
            Meta(u.from, u.chat.id, TrimSpace(u.text), u.kind, u.chat.type,
                 chatTitle(u.chat))
      [] u.kind = "callback_query" ->
            Meta(u.from, messageChatID(u), TrimSpace(u.text), "callback_query",
                 messageChatType(u), messageChatTitle(u))
      [] OTHER -> Meta(0, 0, <<>>, "unknown", "", <<>>)

\* extractUpdateMeta(update)
extractUpdateMeta(u) ==
    CASE u.kind \in {"message", "edited_message"} ->
            Meta(u.from, u.chat.id, TrimSpace(u.text), u.kind, u.chat.type,
                 chatTitle(u.chat))
      [] u.kind = "callback_query" ->
            Meta(u.from, messageChatID(u), TrimSpace(u.text), "callback_query",
                 messageChatType(u), messageChatTitle(u))
      [] u.kind \in {"my_chat_member", "chat_member"} ->
            Meta(u.from, u.chat.id, <<>>, u.kind, u.chat.type, chatTitle(u.chat))
      [] OTHER -> Meta(0, 0, <<>>, "unknown", "", <<>>)

\* a slip: the supergroup case is missing
normalizeChatTypeGroupOnly(chatType) ==
    CASE chatType = "private" -> "private"
      [] chatType = "group" -> "group"
      [] chatType = "" -> "unknown"
      [] OTHER -> chatType

\* normalizeChatType(chatType)
normalizeChatType(chatType) ==
    CASE chatType = "private" -> "private"
      [] chatType \in {"group", "supergroup"} -> "group"
      [] chatType = "" -> "unknown"
      [] OTHER -> chatType

\* isCommand(text)
isCommand(text) == HasPrefix(TrimSpace(text), <<"/">>)

\* a slip: the "@botname" suffix stays in the command
commandNameKeepsSuffix(text) ==
    LET clean == TrimSpace(TrimPrefix(text, <<"/">>))
        word == IF Index(clean, " ") >= 0
                THEN SubSeq(clean, 1, Index(clean, " "))
                ELSE clean
    IN IF clean = <<>> THEN <<>> ELSE ToLower(word)

\* commandName(text)
commandName(text) ==
    LET clean == TrimSpace(TrimPrefix(text, <<"/">>))
        word == IF Index(clean, " ") >= 0
                THEN SubSeq(clean, 1, Index(clean, " "))
                ELSE clean
        name == IF Index(word, "@") >= 0
                THEN SubSeq(word, 1, Index(word, "@"))
                ELSE word
    IN IF clean = <<>> THEN <<>> ELSE ToLower(name)

\* a slip: the edited message is not looked at
primaryMessageNewOnly(u) == u.kind = "message"

\* primaryMessage(update) != nil
primaryMessage(u) == u.kind \in {"message", "edited_message"}

\* newMessageRouter: the name of the handler registered for a command, the
\* unknown handler's when there is none
commandHandlers(cmd) ==
    CASE cmd = <<"s", "t", "a", "r", "t">> -> "command_start"
      [] cmd = <<"p", "i", "n", "g">> -> "command_ping"
      [] cmd = <<"s", "t", "a", "t", "u", "s">> -> "command_status"
      [] OTHER -> "command_unknown"

\* messageRouter.route: the handler the update's text selects
Target(meta) ==
    IF isCommand(meta.text)
    THEN commandHandlers(commandName(meta.text))
    ELSE "generic_message"

\* a record of the logger: the event and one field of it
Log(event, info) == [kind |-> "log", name |-> event, info |-> info]

\* a call of a collaborator and whether it returned an error
Call(name, err) ==
    [kind |-> "call", name |-> name, info |-> IF err THEN "error" ELSE "ok"]

\* logCommandHandled(logger, handlerName, meta)
logCommandHandled(handlerName) == Log("command_handler", handlerName)

(***************************************************************************)
(* The command handlers: what they compute                                 *)
(***************************************************************************)
DefaultAppEnv == "production"

\* time.Second in clock ticks
TicksPerSecond == 1000 * TicksPerMs

\* normalizeDiagnostics: a blank appEnv becomes the default
normalizeDiagnostics(diag) ==
    IF diag.appEnv = "" THEN [diag EXCEPT !.appEnv = DefaultAppEnv] ELSE diag

\* time.Duration.String() of a whole number of seconds below one minute
FormatSeconds(d) == FormatInt(d \div TicksPerSecond) \o "s"

\* pingMessage(appEnv, uptime, mongoStatus)
pingMessage(appEnv, uptime, mongoStatus) ==
    LET env == IF appEnv = "" THEN DefaultAppEnv ELSE appEnv
        up == Truncate(IF uptime < 0 THEN 0 ELSE uptime, TicksPerSecond)
        mongoText == IF mongoStatus = "" THEN "error" ELSE mongoStatus
    IN Join(<<"pong", "env: " \o env, "uptime: " \o FormatSeconds(up),
              "mongo: " \o mongoText>>)

\* statusMessage(appEnv, counts)
statusMessage(appEnv, counts) ==
    LET env == IF appEnv = "" THEN DefaultAppEnv ELSE appEnv
        userCount == IF counts.users = "" THEN "error" ELSE counts.users
        groupCount == IF counts.groups = "" THEN "error" ELSE counts.groups
    IN Join(<<"bot_status: running", "env: " \o env,
              "connected_chats: " \o groupCount,
              "registered_users: " \o userCount>>)

\* startMessage(userID, botOwnerID)
startMessage(userID, botOwnerID) ==
    LET role == IF userID # 0 /\ userID = botOwnerID THEN "owner" ELSE "user" IN
    Join(<<"Welcome to the Telegram payment bot (base build).",
           "User registration and chat tracking are enabled; payment flows and dashboards will arrive later.",
           "Your role: " \o role,
           "Status: registered">>)

\* UserRepository.GetByID: FindOne by user_id, an error when the store
\* fails or holds no such document
GetByID(userID, storeErr) ==
    LET found == Matching(users, "user_id", userID) IN
    IF storeErr \/ found = {}
    THEN [err |-> TRUE, Role |-> ""]
    ELSE [err |-> FALSE,
          Role |-> Field(users[CHOOSE j \in found : \A k \in found : j <= k],
                         "role", "")]

\* StatsProvider.CountUsers
CountUsers(storeErr) ==
    IF storeErr THEN [err |-> TRUE, count |-> 0]
    ELSE [err |-> FALSE, count |-> Len(users)]

\* StatsProvider.CountGroups
CountGroups(storeErr) ==
    IF storeErr THEN [err |-> TRUE, count |-> 0]
    ELSE [err |-> FALSE, count |-> Len(groups)]

\* a slip: the caller's id alone decides
AuthorizedByIdOnly(userID, role) == userID = wiring.botOwnerID

\* a slip: the stored role alone decides
AuthorizedByRoleOnly(userID, role) == RolePriority(role) >= RolePriorityOwner

\* statusCommandHandler: the test that sets authorized
Authorized(userID, role) ==
    /\ userID = wiring.botOwnerID
    /\ RolePriority(role) >= RolePriorityOwner

\* statusCommandHandler: the role lookup; what it logs and calls, the role
\* it read and whether the caller is authorized
Authorize(meta, lookupErr) ==
    IF meta.userID = 0
    THEN [events |-> <<Log("command_status_denied", "missing_user_id")>>,
          role |-> "", authorized |-> FALSE]
    ELSE IF ~wiring.userFetcher
    THEN [events |-> <<Log("command_status_user_lookup_missing", "")>>,
          role |-> "", authorized |-> FALSE]
    ELSE LET got == GetByID(meta.userID, lookupErr) IN
         IF got.err
         THEN [events |-> <<Call("GetByID", TRUE),
                            Log("command_status_user_lookup_failed", "")>>,
               role |-> "", authorized |-> FALSE]
         ELSE LET role == Text(TrimSpace(Chars(got.Role))) IN
              [events |-> <<Call("GetByID", FALSE)>>,
               role |-> role, authorized |-> Authorized(meta.userID, role)]

\* a slip: a failed user count ends the counting, the group count is not
\* attempted and is shown as "error" too
CountsShortCircuit(role, userErr, groupErr) ==
    IF ~wiring.statsProvider
    THEN [events |-> <<Log("command_status_stats_missing", role)>>,
          users |-> "error", groups |-> "error"]
    ELSE IF CountUsers(userErr).err
    THEN [events |-> <<Call("CountUsers", userErr),
                       Log("command_status_user_count_error", role)>>,
          users |-> "error", groups |-> "error"]
    ELSE LET groupCount == CountGroups(groupErr)
         IN [events |->
                <<Call("CountUsers", userErr), Call("CountGroups", groupErr)>>
                \o (IF groupCount.err
                    THEN <<Log("command_status_group_count_error", role)>>
                    ELSE <<>>),
             users |-> FormatInt(CountUsers(userErr).count),
             groups |-> IF groupCount.err THEN "error"
                        ELSE FormatInt(groupCount.count)]

\* statusCommandHandler: the two counts; what it logs and calls, and the
\* count strings of the reply
Counts(role, userErr, groupErr) ==
    IF ~wiring.statsProvider
    THEN [events |-> <<Log("command_status_stats_missing", role)>>,
          users |-> "error", groups |-> "error"]
    ELSE LET userCount == CountUsers(userErr)
             groupCount == CountGroups(groupErr)
         IN [events |->
                <<Call("CountUsers", userErr), Call("CountGroups", groupErr)>>
                \o (IF userCount.err
                    THEN <<Log("command_status_user_count_error", role)>>
                    ELSE <<>>)
                \o (IF groupCount.err
                    THEN <<Log("command_status_group_count_error", role)>>
                    ELSE <<>>),
             users |-> IF userCount.err THEN "error"
                       ELSE FormatInt(userCount.count),
             groups |-> IF groupCount.err THEN "error"
                        ELSE FormatInt(groupCount.count)]

\* a slip: without a client the handler returns without a word
ReplySilentWithoutClient(tr, chatID, text, sendErr, failEvent, okEvent, info) ==
    IF ~b
    THEN [trace |-> tr, sent |-> sent]
    ELSE [trace |-> Append(Append(tr, Call("SendMessage", sendErr)),
                           Log(IF sendErr THEN failEvent ELSE okEvent, info)),
          sent |-> Append(sent, [chat_id |-> chatID, text |-> text])]

\* a slip: a failed send is tried once more
ReplyRetries(tr, chatID, text, sendErr, failEvent, okEvent, info) ==
    IF ~b
    THEN [trace |-> Append(tr, Log(failEvent, info)), sent |-> sent]
    ELSE IF sendErr
    THEN [trace |-> tr \o <<Call("SendMessage", TRUE), Call("SendMessage", TRUE),
                            Log(failEvent, info)>>,
          sent |-> sent \o <<[chat_id |-> chatID, text |-> text],
                             [chat_id |-> chatID, text |-> text]>>]
    ELSE [trace |-> tr \o <<Call("SendMessage", FALSE), Log(okEvent, info)>>,
          sent |-> Append(sent, [chat_id |-> chatID, text |-> text])]

\* the tail the three replying handlers share: without a client the send
\* failure is logged; otherwise sendMessage is called once and its outcome
\* is logged
Reply(tr, chatID, text, sendErr, failEvent, okEvent, info) ==
    IF ~b
    THEN [trace |-> Append(tr, Log(failEvent, info)), sent |-> sent]
    ELSE [trace |-> Append(Append(tr, Call("SendMessage", sendErr)),
                           Log(IF sendErr THEN failEvent ELSE okEvent, info)),
          sent |-> Append(sent, [chat_id |-> chatID, text |-> text])]

(***************************************************************************)
(* Inputs of the dispatcher                                                *)
(***************************************************************************)
\* the chats an update may come from: none, a private chat, a titled group,
\* a supergroup, a channel
Chats ==
    {NoChat,
     Chat(30, "private", <<>>),
     Chat(20, "group", <<" ", "B", " ">>),
     Chat(20, "supergroup", <<>>),
     Chat(40, "channel", <<"A">>)}

\* message texts: the three commands (one of them in capitals, addressed
\* and with arguments), an unregistered command, plain text
Texts ==
    {<<"/", "s", "t", "a", "t", "u", "s">>,
     <<" ", "/", "S", "t", "a", "r", "t", "@", "b", " ", "x">>,
     <<"/", "p", "i", "n", "g">>,
     <<"/", "b", "o", "g", "u", "s">>,
     <<"h", "i">>}

\* the updates the poll loop may hand to defaultHandler
Updates ==
    {Update("message", u, c, t, "none") : u \in UserIds, c \in Chats, t \in Texts}
    \cup {Update("edited_message", 5, Chat(30, "private", <<>>), t, "none") :
            t \in {<<"/", "s", "t", "a", "t", "u", "s">>, <<"h", "i">>}}
    \cup {Update("callback_query", 7, Chat(20, "group", <<"A">>),
                 <<"/", "p", "i", "n", "g">>, v) :
            v \in {"message", "inaccessible", "none"}}
    \cup {Update(k, 7, Chat(20, "supergroup", <<"A">>), <<>>, "none") :
            k \in {"my_chat_member", "chat_member"}}
    \cup {Update("empty", 0, NoChat, <<>>, "none"),
          Update("inline_query", 7, Chat(30, "private", <<"A">>), <<"h", "i">>,
                 "none"),
          NilUpdate}

\* the production wiring of main
FullWiring ==
    [botOwnerID |-> 5, appEnv |-> "staging", userRegistrar |-> TRUE,
     groupRegistrar |-> TRUE, mongoChecker |-> TRUE, userFetcher |-> TRUE,
     statsProvider |-> TRUE]

\* the clients NewClient may build: fully wired, with the user fetcher
\* alone, with no collaborator at all
Wirings ==
    {FullWiring,
     [FullWiring EXCEPT !.userRegistrar = FALSE, !.groupRegistrar = FALSE,
                        !.mongoChecker = FALSE, !.statsProvider = FALSE],
     [NoWiring EXCEPT !.botOwnerID = 5]}

\* the users collections the dispatcher may start on: the owner's record
\* with any stored role, another user's record with role owner
DispatchUsers ==
    {<<>>, <<PriorUser(7, RoleOwner)>>,
     <<PriorUser(5, RoleOwner), PriorUser(7, RoleOwner)>>}
    \cup {<<PriorUser(5, r)>> : r \in {RoleOwner, RoleAdmin, "guest", " owner "}}

InitDispatch ==
    /\ users \in DispatchUsers
    /\ InitStore
    /\ wiring \in {normalizeDiagnostics(w) : w \in Wirings}
    /\ update = NilUpdate
    /\ b = FALSE
    /\ hpc = "idle"
    /\ trace = <<>>
    /\ sent = <<>>
    /\ handled = 0
    /\ MainOff

(***************************************************************************)
(* defaultHandler, step by step                                            *)
(***************************************************************************)
\* the poll loop hands an update and the bot client to defaultHandler; a
\* nil update returns at once
Deliver(u, client) ==
    /\ hpc = "idle"
    /\ handled < MaxUpdates
    /\ handled' = handled + 1
    /\ update' = u
    /\ b' = client
    /\ trace' = <<>>
    /\ sent' = <<>>
    /\ hpc' = IF u = NilUpdate THEN "idle" ELSE "ensureUser"
    /\ UNCHANGED <<wiring, storeVars, mainVars>>

\* a slip: a failed user registration ends the handling of the update
RegisterUserOrGiveUp(err) ==
    /\ hpc = "ensureUser"
    /\ LET meta == extractUpdateMeta(update) IN
       IF wiring.userRegistrar /\ meta.userID # 0
       THEN IF err
            THEN /\ trace' = trace \o <<Call("EnsureUser", TRUE),
                                        Log("user_registration_failed", "")>>
                 /\ hpc' = "idle"
                 /\ UNCHANGED <<users, clock>>
            ELSE \E t \in Readings(clock) :
                 /\ clock' = t
                 /\ users' = UpdateOne(users, "user_id", meta.userID,
                                 EnsureUserSet(Truncate(t, TicksPerMs)),
                                 EnsureUserSetOnInsert(meta.userID,
                                     Truncate(t, TicksPerMs)), TRUE).docs
                 /\ trace' = Append(trace, Call("EnsureUser", FALSE))
                 /\ hpc' = "ensureGroup"
       ELSE /\ hpc' = "ensureGroup"
            /\ UNCHANGED <<users, clock, trace>>
    /\ UNCHANGED <<groups, wk, boot, userRets, groupRets, lastRet, ncalls>>
    /\ UNCHANGED <<wiring, update, b, sent, handled, mainVars>>

\* step 1: EnsureUser when a registrar is wired and the update has a user
\* id; its error is logged and the handling goes on
RegisterUser(err) ==
    /\ hpc = "ensureUser"
    /\ LET meta == extractUpdateMeta(update) IN
       IF wiring.userRegistrar /\ meta.userID # 0
       THEN IF err
            THEN /\ trace' = trace \o <<Call("EnsureUser", TRUE),
                                        Log("user_registration_failed", "")>>
                 /\ UNCHANGED <<users, clock>>
            ELSE \E t \in Readings(clock) :
                 /\ clock' = t
                 /\ users' = UpdateOne(users, "user_id", meta.userID,
                                 EnsureUserSet(Truncate(t, TicksPerMs)),
                                 EnsureUserSetOnInsert(meta.userID,
                                     Truncate(t, TicksPerMs)), TRUE).docs
                 /\ trace' = Append(trace, Call("EnsureUser", FALSE))
       ELSE UNCHANGED <<users, clock, trace>>
    /\ hpc' = "ensureGroup"
    /\ UNCHANGED <<groups, wk, boot, userRets, groupRets, lastRet, ncalls>>
    /\ UNCHANGED <<wiring, update, b, sent, handled, mainVars>>

\* a slip: the chat type is not looked at, every chat with an id is
\* registered as a group
RegisterGroupAnyChat(err) ==
    /\ hpc = "ensureGroup"
    /\ LET meta == extractUpdateMeta(update)
       IN IF wiring.groupRegistrar /\ meta.chatID # 0
          THEN IF err
               THEN /\ trace' = trace \o <<Call("EnsureGroup", TRUE),
                                           Log("group_registration_failed", "")>>
                    /\ UNCHANGED <<groups, clock>>
               ELSE \E t \in Readings(clock) :
                    /\ clock' = t
                    /\ groups' = UpdateOne(groups, "chat_id", meta.chatID,
                                     EnsureGroupSet(Truncate(t, TicksPerMs),
                                                    meta.chatTitle),
                                     EnsureGroupSetOnInsert(meta.chatID,
                                         Truncate(t, TicksPerMs)), TRUE).docs
                    /\ trace' = Append(trace, Call("EnsureGroup", FALSE))
          ELSE UNCHANGED <<groups, clock, trace>>
    /\ hpc' = "route"
    /\ UNCHANGED <<users, wk, boot, userRets, groupRets, lastRet, ncalls>>
    /\ UNCHANGED <<wiring, update, b, sent, handled, mainVars>>

\* step 2: EnsureGroup when a registrar is wired, the update has a chat id
\* and the chat type normalizes to group; its error is logged and the
\* handling goes on
RegisterGroup(err) ==
    /\ hpc = "ensureGroup"
    /\ LET meta == extractUpdateMeta(update)
           normalizedChatType == normalizeChatType(meta.chatType)
       IN IF wiring.groupRegistrar /\ meta.chatID # 0
             /\ normalizedChatType = "group"
          THEN IF err
               THEN /\ trace' = trace \o <<Call("EnsureGroup", TRUE),
                                           Log("group_registration_failed", "")>>
                    /\ UNCHANGED <<groups, clock>>
               ELSE \E t \in Readings(clock) :
                    /\ clock' = t
                    /\ groups' = UpdateOne(groups, "chat_id", meta.chatID,
                                     EnsureGroupSet(Truncate(t, TicksPerMs),
                                                    meta.chatTitle),
                                     EnsureGroupSetOnInsert(meta.chatID,
                                         Truncate(t, TicksPerMs)), TRUE).docs
                    /\ trace' = Append(trace, Call("EnsureGroup", FALSE))
          ELSE UNCHANGED <<groups, clock, trace>>
    /\ hpc' = "route"
    /\ UNCHANGED <<users, wk, boot, userRets, groupRets, lastRet, ncalls>>
    /\ UNCHANGED <<wiring, update, b, sent, handled, mainVars>>

\* a slip: the update is routed first and logged afterwards
LogAndRouteSwapped ==
    /\ hpc = "route"
    /\ LET meta == extractUpdateMeta(update) IN
       IF ~primaryMessage(update)
       THEN /\ trace' = Append(trace, Log("telegram_update", meta.updateType))
            /\ hpc' = "idle"
       ELSE /\ trace' = trace \o <<Log("telegram_route", Target(meta)),
                                    Log("telegram_update", meta.updateType)>>
            /\ hpc' = Target(meta)
    /\ UNCHANGED <<wiring, update, b, sent, handled, storeVars, mainVars>>

\* steps 3 and 4: the update log, then messageRouter.route: nothing for an
\* update without a message, else the routing log and the handler
LogAndRoute ==
    /\ hpc = "route"
    /\ LET meta == extractUpdateMeta(update)
           logged == Append(trace, Log("telegram_update", meta.updateType))
       IN IF ~primaryMessage(update)
          THEN /\ trace' = logged
               /\ hpc' = "idle"
          ELSE /\ trace' = Append(logged, Log("telegram_route", Target(meta)))
               /\ hpc' = Target(meta)
    /\ UNCHANGED <<wiring, update, b, sent, handled, storeVars, mainVars>>

(***************************************************************************)
(* The handlers the router invokes                                         *)
(***************************************************************************)
\* diag.processStart: the clock reading when the client was built
processStart == 0

\* a slip: the chat type is not looked at, /start answers in every chat
startCommandHandlerEverywhere(sendErr) ==
    /\ hpc = "command_start"
    /\ LET meta == extractUpdateMeta(update)
           entered == Append(trace, logCommandHandled("command_start"))
       IN IF meta.chatID = 0
          THEN /\ trace' = Append(entered,
                                  Log("command_start_send_failed", "chat_id"))
               /\ sent' = sent
          ELSE LET reply == Reply(entered, meta.chatID,
                                  startMessage(meta.userID, wiring.botOwnerID),
                                  sendErr, "command_start_send_failed",
                                  "command_start_sent", "")
               IN /\ trace' = reply.trace
                  /\ sent' = reply.sent
    /\ hpc' = "idle"
    /\ UNCHANGED <<wiring, update, b, handled, storeVars, mainVars>>

\* startCommandHandler
startCommandHandler(sendErr) ==
    /\ hpc = "command_start"
    /\ LET meta == extractUpdateMeta(update)
           entered == Append(trace, logCommandHandled("command_start"))
           chatType == normalizeChatType(meta.chatType)
       IN IF chatType # "private"
          THEN /\ trace' = Append(entered, Log("command_start_ignored", chatType))
               /\ sent' = sent
          ELSE IF meta.chatID = 0
          THEN /\ trace' = Append(entered,
                                  Log("command_start_send_failed", "chat_id"))
               /\ sent' = sent
          ELSE LET reply == Reply(entered, meta.chatID,
                                  startMessage(meta.userID, wiring.botOwnerID),
                                  sendErr, "command_start_send_failed",
                                  "command_start_sent", "")
               IN /\ trace' = reply.trace
                  /\ sent' = reply.sent
    /\ hpc' = "idle"
    /\ UNCHANGED <<wiring, update, b, handled, storeVars, mainVars>>

\* a slip: a failed Mongo check ends the handler before it replies
pingCommandHandlerGivesUp(pingErr, sendErr) ==
    /\ hpc = "command_ping"
    /\ LET meta == extractUpdateMeta(update)
           entered == Append(trace, logCommandHandled("command_ping"))
           mongoStatus == IF wiring.mongoChecker /\ ~pingErr THEN "ok" ELSE "error"
           checked == IF ~wiring.mongoChecker THEN entered
                      ELSE IF pingErr
                      THEN entered \o <<Call("Ping", TRUE),
                                        Log("command_ping_mongo_error", "")>>
                      ELSE Append(entered, Call("Ping", FALSE))
       IN IF meta.chatID = 0
          THEN /\ trace' = Append(entered,
                                  Log("command_ping_send_failed", "chat_id"))
               /\ sent' = sent
          ELSE IF wiring.mongoChecker /\ pingErr
          THEN /\ trace' = checked
               /\ sent' = sent
          ELSE LET reply == Reply(checked, meta.chatID,
                                  pingMessage(wiring.appEnv, clock - processStart,
                                              mongoStatus),
                                  sendErr, "command_ping_send_failed",
                                  "command_ping_sent", mongoStatus)
               IN /\ trace' = reply.trace
                  /\ sent' = reply.sent
    /\ hpc' = "idle"
    /\ UNCHANGED <<wiring, update, b, handled, storeVars, mainVars>>

\* pingCommandHandler
pingCommandHandler(pingErr, sendErr) ==
    /\ hpc = "command_ping"
    /\ LET meta == extractUpdateMeta(update)
           entered == Append(trace, logCommandHandled("command_ping"))
           mongoStatus == IF wiring.mongoChecker /\ ~pingErr THEN "ok" ELSE "error"
           checked == IF ~wiring.mongoChecker THEN entered
                      ELSE IF pingErr
                      THEN entered \o <<Call("Ping", TRUE),
                                        Log("command_ping_mongo_error", "")>>
                      ELSE Append(entered, Call("Ping", FALSE))
       IN IF meta.chatID = 0
          THEN /\ trace' = Append(entered,
                                  Log("command_ping_send_failed", "chat_id"))
               /\ sent' = sent
          ELSE LET reply == Reply(checked, meta.chatID,
                                  pingMessage(wiring.appEnv, clock - processStart,
                                              mongoStatus),
                                  sendErr, "command_ping_send_failed",
                                  "command_ping_sent", mongoStatus)
               IN /\ trace' = reply.trace
                  /\ sent' = reply.sent
    /\ hpc' = "idle"
    /\ UNCHANGED <<wiring, update, b, handled, storeVars, mainVars>>

\* statusCommandHandler
statusCommandHandler(lookupErr, userErr, groupErr, sendErr) ==
    /\ hpc = "command_status"
    /\ LET meta == extractUpdateMeta(update)
           entered == Append(trace, logCommandHandled("command_status"))
           auth == Authorize(meta, lookupErr)
           counts == Counts(auth.role, userErr, groupErr)
           reply ==
               IF ~auth.authorized
               THEN Reply(entered \o auth.events, meta.chatID,
                          "permission denied", sendErr,
                          "command_status_send_failed", "command_status_denied",
                          auth.role)
               ELSE Reply(entered \o auth.events \o counts.events, meta.chatID,
                          statusMessage(wiring.appEnv, counts), sendErr,
                          "command_status_send_failed", "command_status_sent",
                          auth.role)
       IN IF meta.chatID = 0
          THEN /\ trace' = Append(entered,
                                  Log("command_status_send_failed", "chat_id"))
               /\ sent' = sent
          ELSE /\ trace' = reply.trace
               /\ sent' = reply.sent
    /\ hpc' = "idle"
    /\ UNCHANGED <<wiring, update, b, handled, storeVars, mainVars>>

\* a slip: an unregistered command is answered
commandLoggerHandlerReplies ==
    /\ hpc = "command_unknown"
    /\ LET meta == extractUpdateMeta(update)
           reply == Reply(Append(trace, logCommandHandled("command_unknown")),
                          meta.chatID, "unknown command", FALSE,
                          "command_unknown_send_failed", "command_unknown_sent",
                          "")
       IN /\ trace' = reply.trace
          /\ sent' = reply.sent
    /\ hpc' = "idle"
    /\ UNCHANGED <<wiring, update, b, handled, storeVars, mainVars>>

\* commandLoggerHandler(logger, "command_unknown")
commandLoggerHandler ==
    /\ hpc = "command_unknown"
    /\ trace' = Append(trace, logCommandHandled("command_unknown"))
    /\ hpc' = "idle"
    /\ UNCHANGED <<wiring, update, b, sent, handled, storeVars, mainVars>>

\* genericLoggerHandler
genericLoggerHandler ==
    /\ hpc = "generic_message"
    /\ trace' = Append(trace, Log("generic_handler", "generic_message"))
    /\ hpc' = "idle"
    /\ UNCHANGED <<wiring, update, b, sent, handled, storeVars, mainVars>>

NextDispatch ==
    \/ \E u \in Updates, client \in BOOLEAN : Deliver(u, client)
    \/ \E err \in BOOLEAN : RegisterUser(err)
    \/ \E err \in BOOLEAN : RegisterGroup(err)
    \/ LogAndRoute
    \/ \E sendErr \in BOOLEAN : startCommandHandler(sendErr)
    \/ \E pingErr \in BOOLEAN, sendErr \in BOOLEAN :
          pingCommandHandler(pingErr, sendErr)
    \/ \E lookupErr \in BOOLEAN, userErr \in BOOLEAN, groupErr \in BOOLEAN,
          sendErr \in BOOLEAN :
          statusCommandHandler(lookupErr, userErr, groupErr, sendErr)
    \/ commandLoggerHandler
    \/ genericLoggerHandler

SpecDispatch == InitDispatch /\ [][NextDispatch]_vars

(***************************************************************************)
(* Claims about the dispatcher and /status                                 *)
(***************************************************************************)
\* the step in which statusCommandHandler runs
StatusStep ==
    /\ hpc = "command_status"
    /\ hpc' = "idle"

\* the count strings a /status reply may show
CountTexts == {"error"} \cup {FormatInt(n) : n \in 0..(Len(users) + Len(groups))}

\* the text is a /status answer: the status lines with some counts
IsStatusReply(text) ==
    \E u \in CountTexts, g \in CountTexts :
        text = statusMessage(wiring.appEnv, [users |-> u, groups |-> g])

\* the role stored in the document resolves to the owner's priority or more
ResolvesToOwner(doc) ==
    RolePriority(Text(TrimSpace(Chars(Field(doc, "role", ""))))) >= RolePriorityOwner

\* the records of the given kind and name in a trace
Occurrences(tr, kind, names) ==
    {i \in 1..Len(tr) : tr[i].kind = kind /\ tr[i].name \in names}

\* C3: /status answers with the counts (or queries them) only if the
\* caller's user id is the configured owner id, the role lookup for the id
\* succeeded and the stored role resolves to priority >= owner; a caller
\* with the owner id whose stored role is admin, user or unknown, or whose
\* lookup fails, gets "permission denied".
C3_StatusOwnerOnly ==
    [][StatusStep =>
         LET meta == extractUpdateMeta(update)
             answered == \E i \in 1..Len(sent') : IsStatusReply(sent'[i].text)
             counted == Occurrences(trace', "call",
                                    {"CountUsers", "CountGroups"}) # {}
             entitled ==
                 /\ meta.userID = wiring.botOwnerID
                 /\ \E i \in 1..Len(trace') : trace'[i] = Call("GetByID", FALSE)
                 /\ \E d \in DocsFor(users, "user_id", meta.userID) :
                       ResolvesToOwner(d)
         IN /\ (answered \/ counted) => entitled
            /\ (~entitled /\ meta.chatID # 0 /\ b) =>
                  sent' = <<[chat_id |-> meta.chatID,
                             text |-> "permission denied"]>>
      ]_vars

\* the configured owner, stored with role owner, has asked /status and has
\* been answered with the counts
C3_Witness ==
    /\ hpc = "idle"
    /\ handled > 0
    /\ Target(extractUpdateMeta(update)) = "command_status"
    /\ extractUpdateMeta(update).userID = wiring.botOwnerID
    /\ Len(sent) = 1
    /\ IsStatusReply(sent[1].text)
    /\ Occurrences(trace, "call", {"CountUsers", "CountGroups"}) # {}

\* C4: for a caller whose user id differs from the configured owner id,
\* whatever role the store holds for the caller, /status makes no call to
\* CountUsers or CountGroups and the only reply it sends is the literal
\* "permission denied" (sent once whenever the update has a chat id and
\* the handler has a client to send with).
C4_NonOwnerDenied ==
    [][(StatusStep /\ extractUpdateMeta(update).userID # wiring.botOwnerID) =>
         /\ Occurrences(trace', "call", {"CountUsers", "CountGroups"}) = {}
         /\ Len(sent') <= 1
         /\ \A i \in 1..Len(sent') : sent'[i].text = "permission denied"
         /\ (extractUpdateMeta(update).chatID # 0 /\ b) => Len(sent') = 1
      ]_vars

\* a caller who is not the configured owner but is stored with role owner
\* has asked /status and has been sent "permission denied"
C4_Witness ==
    /\ hpc = "idle"
    /\ handled > 0
    /\ Target(extractUpdateMeta(update)) = "command_status"
    /\ extractUpdateMeta(update).userID = 7
    /\ \E d \in DocsFor(users, "user_id", 7) : d["role"] = RoleOwner
    /\ \E i \in 1..Len(trace) : trace[i] = Call("GetByID", FALSE)
    /\ sent = <<[chat_id |-> extractUpdateMeta(update).chatID,
                 text |-> "permission denied"]>>

\* the record is in the trace of the update
Has(e) == \E i \in 1..Len(trace) : trace[i] = e

\* the handler the update is routed to replies: /ping and /status with a
\* chat id and a client, /start in a private chat as well
Replies(meta) ==
    /\ primaryMessage(update)
    /\ meta.chatID # 0
    /\ b
    /\ \/ Target(meta) \in {"command_ping", "command_status"}
       \/ /\ Target(meta) = "command_start"
          /\ normalizeChatType(meta.chatType) = "private"

\* C6: when EnsureUser or EnsureGroup returns an error for an update, the
\* dispatcher logs the failure, still logs the update, still routes it, and
\* the handler it selects still sends its reply.
C6_RegistrationFailureNotFatal ==
    (hpc = "idle" /\ (Has(Call("EnsureUser", TRUE)) \/ Has(Call("EnsureGroup", TRUE))))
    => LET meta == extractUpdateMeta(update) IN
       /\ Has(Call("EnsureUser", TRUE)) => Has(Log("user_registration_failed", ""))
       /\ Has(Call("EnsureGroup", TRUE)) => Has(Log("group_registration_failed", ""))
       /\ Cardinality(Occurrences(trace, "log", {"telegram_update"})) = 1
       /\ primaryMessage(update) =>
             /\ Has(Log("telegram_route", Target(meta)))
             /\ Occurrences(trace, "log", {"command_handler", "generic_handler"}) # {}
       /\ Replies(meta) =>
             /\ Cardinality(Occurrences(trace, "call", {"SendMessage"})) = 1
             /\ Len(sent) = 1
             /\ sent[1].chat_id = meta.chatID

\* both registrations have failed for a /ping in a group and the reply has
\* been sent all the same
C6_Witness ==
    /\ hpc = "idle"
    /\ Has(Call("EnsureUser", TRUE))
    /\ Has(Call("EnsureGroup", TRUE))
    /\ Target(extractUpdateMeta(update)) = "command_ping"
    /\ Has(Call("SendMessage", FALSE))
    /\ Len(sent) = 1

(***************************************************************************)
(* main: startup, polling, shutdown                                        *)
(***************************************************************************)
InitMain ==
    /\ users \in PriorUsers
    /\ InitStore
    /\ DispatcherOff
    /\ mpc = "loadConfig"
    /\ lifecycle = <<>>
    /\ poll = "notStarted"
    /\ mongo = "none"
    /\ exitCode = -1
    /\ inflight = 0
    /\ manager = "nil"

\* os.Exit(code), or the return of main
Exit(code) ==
    /\ exitCode' = code
    /\ mpc' = "exited"

\* config.Load(); its error ends the process with status 1
LoadConfig(err) ==
    /\ mpc = "loadConfig"
    /\ lifecycle' = Append(lifecycle, Call("config.Load", err))
    /\ IF err THEN Exit(1)
       ELSE /\ mpc' = "setupLogging"
            /\ UNCHANGED exitCode
    /\ UNCHANGED <<poll, mongo, storeVars, dispVars, inflight, manager>>

\* logging.Setup(cfg), then the -config-only branch, which prints the
\* configuration and returns
SetupLogging(err, configOnly) ==
    /\ mpc = "setupLogging"
    /\ IF err
       THEN /\ lifecycle' = Append(lifecycle, Call("logging.Setup", TRUE))
            /\ Exit(1)
       ELSE IF configOnly
       THEN /\ lifecycle' = lifecycle \o <<Call("logging.Setup", FALSE),
                                           Log("config_only", "")>>
            /\ Exit(0)
       ELSE /\ lifecycle' = lifecycle \o <<Call("logging.Setup", FALSE),
                                           Log("startup", "")>>
            /\ mpc' = "connect"
            /\ UNCHANGED exitCode
    /\ UNCHANGED <<poll, mongo, storeVars, dispVars, inflight, manager>>

\* a slip: a failed ping returns the error and leaves the client connected
NewManagerLeaks(connectErr, pingErr, disconnectErr) ==
    /\ mpc = "connect"
    /\ IF connectErr
       THEN /\ lifecycle' = Append(lifecycle, Call("connectMongo", TRUE))
            /\ UNCHANGED <<mongo, manager>>
            /\ Exit(1)
       ELSE IF pingErr
       THEN /\ lifecycle' = lifecycle \o <<Call("connectMongo", FALSE),
                                           Call("client.Ping", TRUE)>>
            /\ mongo' = "connected"
            /\ UNCHANGED manager
            /\ Exit(1)
       ELSE /\ lifecycle' = lifecycle \o <<Call("connectMongo", FALSE),
                                           Call("client.Ping", FALSE),
                                           Log("mongo_connect", "")>>
            /\ mongo' = "connected"
            /\ manager' = "set"
            /\ mpc' = "indexes"
            /\ UNCHANGED exitCode
    /\ UNCHANGED <<poll, storeVars, dispVars, inflight>>

\* store.NewManager: connect, then ping; a failed ping disconnects the
\* client again, whatever Disconnect returns being dropped; either error
\* comes back without a Manager and ends the process with status 1
NewManager(connectErr, pingErr, disconnectErr) ==
    /\ mpc = "connect"
    /\ IF connectErr
       THEN /\ lifecycle' = Append(lifecycle, Call("connectMongo", TRUE))
            /\ UNCHANGED <<mongo, manager>>
            /\ Exit(1)
       ELSE IF pingErr
       THEN /\ lifecycle' = lifecycle \o <<Call("connectMongo", FALSE),
                                           Call("client.Ping", TRUE),
                                           Call("client.Disconnect", disconnectErr)>>
            /\ mongo' = IF disconnectErr THEN "connected" ELSE "disconnected"
            /\ UNCHANGED manager
            /\ Exit(1)
       ELSE /\ lifecycle' = lifecycle \o <<Call("connectMongo", FALSE),
                                           Call("client.Ping", FALSE),
                                           Log("mongo_connect", "")>>
            /\ mongo' = "connected"
            /\ manager' = "set"
            /\ mpc' = "indexes"
            /\ UNCHANGED exitCode
    /\ UNCHANGED <<poll, storeVars, dispVars, inflight>>

\* a slip: after a failed users index the groups index is still created,
\* and the first error is returned at the end
EnsureBaseIndexesKeepsGoing(usersErr, groupsErr) ==
    /\ mpc = "indexes"
    /\ IF usersErr \/ groupsErr
       THEN /\ lifecycle' = lifecycle \o <<Call("createIndexes users", usersErr),
                                           Call("createIndexes groups", groupsErr)>>
            /\ Exit(1)
       ELSE /\ lifecycle' = lifecycle \o <<Call("createIndexes users", FALSE),
                                           Call("createIndexes groups", FALSE),
                                           Log("mongo_indexes", "")>>
            /\ mpc' = "ensureOwner"
            /\ UNCHANGED exitCode
    /\ UNCHANGED <<poll, mongo, storeVars, dispVars, inflight, manager>>

\* Manager.EnsureBaseIndexes: the users index, then the groups index,
\* stopping at the first error, which ends the process with status 1
EnsureBaseIndexes(usersErr, groupsErr) ==
    /\ mpc = "indexes"
    /\ IF usersErr
       THEN /\ lifecycle' = Append(lifecycle, Call("createIndexes users", TRUE))
            /\ Exit(1)
       ELSE IF groupsErr
       THEN /\ lifecycle' = lifecycle \o <<Call("createIndexes users", FALSE),
                                           Call("createIndexes groups", TRUE)>>
            /\ Exit(1)
       ELSE /\ lifecycle' = lifecycle \o <<Call("createIndexes users", FALSE),
                                           Call("createIndexes groups", FALSE),
                                           Log("mongo_indexes", "")>>
            /\ mpc' = "ensureOwner"
            /\ UNCHANGED exitCode
    /\ UNCHANGED <<poll, mongo, storeVars, dispVars, inflight, manager>>

\* a slip: the owner bootstrap error is logged and startup goes on
BootstrapOwnerUnchecked(ownerID, demoteErr, upsertErr) ==
    /\ mpc = "ensureOwner"
    /\ lifecycle' = Append(lifecycle, Call("EnsureOwner", demoteErr \/ upsertErr))
    /\ mpc' = "newClient"
    /\ UNCHANGED <<exitCode, poll, mongo, storeVars, dispVars, inflight, manager>>

\* ownerRegistrar.EnsureOwner(ownerCtx, cfg.BotOwnerID): the demotion and
\* the upsert; its error ends the process with status 1
BootstrapOwner(ownerID, demoteErr, upsertErr) ==
    /\ mpc = "ensureOwner"
    /\ lifecycle' = Append(lifecycle, Call("EnsureOwner", demoteErr \/ upsertErr))
    /\ IF demoteErr
       THEN /\ Exit(1)
            /\ UNCHANGED <<users, clock>>
       ELSE \E t \in Readings(clock) :
            LET demoted == DemoteOwners(users, ownerID, t).docs IN
            /\ clock' = t
            /\ IF upsertErr
               THEN /\ users' = demoted
                    /\ Exit(1)
               ELSE /\ users' = UpdateOne(demoted, "user_id", ownerID,
                                          OwnerSet(ownerID, t),
                                          OwnerSetOnInsert(t), TRUE).docs
                    /\ mpc' = "newClient"
                    /\ UNCHANGED exitCode
    /\ UNCHANGED <<poll, mongo, dispVars, inflight, manager>>
    /\ UNCHANGED <<groups, wk, boot, userRets, groupRets, lastRet, ncalls>>

\* telegram.NewClient with the registrars, repositories and providers; its
\* error ends the process with status 1
NewClient(err) ==
    /\ mpc = "newClient"
    /\ IF err
       THEN /\ lifecycle' = Append(lifecycle, Call("telegram.NewClient", TRUE))
            /\ Exit(1)
       ELSE /\ lifecycle' = lifecycle \o <<Call("telegram.NewClient", FALSE),
                                           Log("telegram_ready", "")>>
            /\ mpc' = "startPolling"
            /\ UNCHANGED exitCode
    /\ UNCHANGED <<poll, mongo, storeVars, dispVars, inflight, manager>>

\* go func() { tgClient.Start(telegramCtx); close(tgDone) }()
StartPolling ==
    /\ mpc = "startPolling"
    /\ poll' = "polling"
    /\ lifecycle' = Append(lifecycle, Call("tgClient.Start", FALSE))
    /\ mpc' = "awaitSignal"
    /\ UNCHANGED <<exitCode, mongo, storeVars, dispVars, inflight, manager>>

\* the poll loop receives an update and defaultHandler starts on it; no
\* update is taken once the Telegram context is cancelled
HandleUpdate ==
    /\ poll = "polling"
    /\ mpc \in {"awaitSignal", "cancelTelegram"}
    /\ inflight < MaxInflight
    /\ inflight' = inflight + 1
    /\ UNCHANGED <<mpc, lifecycle, poll, mongo, exitCode, storeVars, dispVars, manager>>

\* defaultHandler returns from an update; the process must still be there
HandlerReturns ==
    /\ inflight > 0
    /\ mpc # "exited"
    /\ inflight' = inflight - 1
    /\ UNCHANGED <<mpc, lifecycle, poll, mongo, exitCode, storeVars, dispVars, manager>>

\* tgClient.Start returns and tgDone is closed: after the cancellation, or
\* before it when polling stops by itself; it may also never happen.  The
\* library is taken at its most careful: Start returns only when no handler
\* is running
PollReturns ==
    /\ poll = "polling"
    /\ mpc # "exited"
    /\ inflight = 0
    /\ poll' = "stopped"
    /\ lifecycle' = Append(lifecycle, Log("telegram_stopped", ""))
    /\ UNCHANGED <<mpc, exitCode, mongo, storeVars, dispVars, inflight, manager>>

\* the first select: <-signalCtx.Done()
ShutdownSignal ==
    /\ mpc = "awaitSignal"
    /\ lifecycle' = Append(lifecycle, Log("shutdown_signal", ""))
    /\ mpc' = "cancelTelegram"
    /\ UNCHANGED <<exitCode, poll, mongo, storeVars, dispVars, inflight, manager>>

\* the first select: <-tgDone
StoppedEarly ==
    /\ mpc = "awaitSignal"
    /\ poll = "stopped"
    /\ lifecycle' = Append(lifecycle, Log("telegram_stopped_early", ""))
    /\ mpc' = "cancelTelegram"
    /\ UNCHANGED <<exitCode, poll, mongo, storeVars, dispVars, inflight, manager>>

\* cancelTelegram(), then the bounded wait begins
CancelTelegram ==
    /\ mpc = "cancelTelegram"
    /\ lifecycle' = Append(lifecycle, Call("cancelTelegram", FALSE))
    /\ mpc' = "awaitStop"
    /\ UNCHANGED <<exitCode, poll, mongo, storeVars, dispVars, inflight, manager>>

\* the second select: <-tgDone
AwaitStopDone ==
    /\ mpc = "awaitStop"
    /\ poll = "stopped"
    /\ lifecycle' = Append(lifecycle, Log("telegram_wait_done", ""))
    /\ mpc' = "close"
    /\ UNCHANGED <<exitCode, poll, mongo, storeVars, dispVars, inflight, manager>>

\* a slip: the wait for the poll loop has no timeout
AwaitStopUnbounded ==
    /\ mpc = "awaitStop"
    /\ poll = "stopped"
    /\ lifecycle' = Append(lifecycle, Log("telegram_shutdown_timeout", ""))
    /\ mpc' = "close"
    /\ UNCHANGED <<exitCode, poll, mongo, storeVars, dispVars, inflight, manager>>

\* a slip: the timeout of the wait skips the disconnect
AwaitStopTimeoutSkipsClose ==
    /\ mpc = "awaitStop"
    /\ lifecycle' = Append(lifecycle, Log("telegram_shutdown_timeout", ""))
    /\ mpc' = "complete"
    /\ UNCHANGED <<exitCode, poll, mongo, storeVars, dispVars, inflight, manager>>

\* the second select: <-waitCtx.Done(), after telegramShutdownTimeout
AwaitStopTimeout ==
    /\ mpc = "awaitStop"
    /\ lifecycle' = Append(lifecycle, Log("telegram_shutdown_timeout", ""))
    /\ mpc' = "close"
    /\ UNCHANGED <<exitCode, poll, mongo, storeVars, dispVars, inflight, manager>>

\* mongoManager.Close(shutdownCtx); its error is only logged
CloseMongo(err) ==
    /\ mpc = "close"
    /\ lifecycle' = lifecycle \o
           <<Call("mongoManager.Close", err),
             IF err THEN Log("", "mongo disconnect error")
             ELSE Log("mongo_disconnect", "")>>
    /\ mongo' = IF err THEN mongo ELSE "disconnected"
    /\ mpc' = "complete"
    /\ UNCHANGED <<exitCode, poll, storeVars, dispVars, inflight, manager>>

\* the shutdown_complete log, and main returns
ShutdownComplete ==
    /\ mpc = "complete"
    /\ lifecycle' = Append(lifecycle, Log("shutdown_complete", ""))
    /\ Exit(0)
    /\ UNCHANGED <<poll, mongo, storeVars, dispVars, inflight, manager>>

NextMain ==
    \/ \E err \in BOOLEAN : LoadConfig(err)
    \/ \E err \in BOOLEAN, configOnly \in BOOLEAN : SetupLogging(err, configOnly)
    \/ \E connectErr \in BOOLEAN, pingErr \in BOOLEAN, disconnectErr \in BOOLEAN :
          NewManager(connectErr, pingErr, disconnectErr)
    \/ \E usersErr \in BOOLEAN, groupsErr \in BOOLEAN :
          EnsureBaseIndexes(usersErr, groupsErr)
    \/ \E ownerID \in OwnerIds \ {0}, demoteErr \in BOOLEAN, upsertErr \in BOOLEAN :
          BootstrapOwner(ownerID, demoteErr, upsertErr)
    \/ \E err \in BOOLEAN : NewClient(err)
    \/ StartPolling
    \/ HandleUpdate
    \/ HandlerReturns
    \/ PollReturns
    \/ ShutdownSignal
    \/ StoppedEarly
    \/ CancelTelegram
    \/ AwaitStopDone
    \/ AwaitStopTimeout
    \/ \E err \in BOOLEAN : CloseMongo(err)
    \/ ShutdownComplete

SpecMain == InitMain /\ [][NextMain]_vars

(***************************************************************************)
(* Claims about main                                                       *)
(***************************************************************************)
\* every position of the second set has a position of the first before it
Before(first, second) == \A j \in second : \E i \in first : i < j

\* the startup steps that must have succeeded, in their order, before the
\* poll loop is started
StartupSteps ==
    <<"config.Load", "connectMongo", "client.Ping", "createIndexes users",
      "createIndexes groups", "EnsureOwner">>

\* the positions in lifecycle where the step succeeded
Succeeded(step) == {i \in 1..Len(lifecycle) : lifecycle[i] = Call(step, FALSE)}

\* C9: the poll loop is started only after connect and ping, the index
\* creation and EnsureOwner have each succeeded, in that order; when
\* configuration loading or one of those steps fails, the process exits
\* with a non-zero status and polling is never started.
C9_PollingAfterStartup ==
    /\ poll # "notStarted" =>
          /\ \A k \in 1..Len(StartupSteps) : Succeeded(StartupSteps[k]) # {}
          /\ \A k \in 1..(Len(StartupSteps) - 1) :
                Before(Succeeded(StartupSteps[k]), Succeeded(StartupSteps[k + 1]))
          /\ Before(Succeeded(StartupSteps[Len(StartupSteps)]),
                    Succeeded("tgClient.Start"))
    /\ (\E i \in 1..Len(lifecycle), k \in 1..Len(StartupSteps) :
           lifecycle[i] = Call(StartupSteps[k], TRUE)) =>
          /\ exitCode > 0
          /\ mpc = "exited"
          /\ poll = "notStarted"
    /\ exitCode > 0 => poll = "notStarted"

\* polling has started on a store where EnsureOwner demoted an earlier
\* owner
C9_Witness ==
    /\ poll = "polling"
    /\ mpc = "awaitSignal"
    /\ Cardinality(OwnerRecords(users)) = 1
    /\ \E i \in 1..Len(users) : users[i]["role"] = RoleAdmin

\* C10: after a termination signal, the Telegram context is cancelled
\* before the bounded wait for the poll loop begins; the MongoDB close is
\* attempted only after that wait has ended, whether it ended because the
\* poll loop returned or because it timed out; shutdown_complete is logged
\* after the close attempt.
C10_ShutdownOrder ==
    LET signalled == Occurrences(lifecycle, "log", {"shutdown_signal"})
        cancelled == Occurrences(lifecycle, "call", {"cancelTelegram"})
        waited == Occurrences(lifecycle, "log",
                              {"telegram_wait_done", "telegram_shutdown_timeout"})
        closed == Occurrences(lifecycle, "call", {"mongoManager.Close"})
        completed == Occurrences(lifecycle, "log", {"shutdown_complete"})
    IN signalled # {} =>
          /\ mpc = "awaitStop" => cancelled # {}
          /\ Before(signalled, cancelled)
          /\ Before(cancelled, waited)
          /\ Before(waited, closed)
          /\ waited # {} => (mpc = "close" \/ closed # {})
          /\ Before(closed, completed)
          /\ (mpc = "exited" /\ exitCode = 0) => completed # {}

\* after a signal the poll loop has not returned, the wait has timed out,
\* the close has been attempted and shutdown_complete has been logged
C10_Witness ==
    /\ Occurrences(lifecycle, "log", {"shutdown_signal"}) # {}
    /\ Occurrences(lifecycle, "log", {"telegram_shutdown_timeout"}) # {}
    /\ poll = "polling"
    /\ Occurrences(lifecycle, "call", {"mongoManager.Close"}) # {}
    /\ lifecycle[Len(lifecycle)] = Log("shutdown_complete", "")
    /\ exitCode = 0

(***************************************************************************)
(* main under fair scheduling                                              *)
(***************************************************************************)
\* what keeps main moving once it shuts down: a select with a ready case
\* proceeds, the timer of waitCtx (telegramShutdownTimeout) fires, Close
\* returns within mongoDisconnectTimeout, and the goroutine of main is
\* scheduled.  Neither the signal nor the return of tgClient.Start is
\* promised.
MainFairness ==
    /\ WF_vars(StoppedEarly)
    /\ WF_vars(CancelTelegram)
    /\ WF_vars(AwaitStopTimeout)
    /\ WF_vars(\E err \in BOOLEAN : CloseMongo(err))
    /\ WF_vars(ShutdownComplete)

SpecMainLive == InitMain /\ [][NextMain]_vars /\ MainFairness

\* C11: once the termination signal is received, or the poll loop has
\* returned on its own, the process eventually logs shutdown_complete and
\* returns with status 0, even when the poll loop never returns (only the
\* timeout warning is logged) and when the disconnect fails (only logged).
C11_ShutdownCompletes ==
    (\/ Occurrences(lifecycle, "log", {"shutdown_signal"}) # {}
     \/ poll = "stopped")
    ~> (/\ Occurrences(lifecycle, "log", {"shutdown_complete"}) # {}
        /\ exitCode = 0)

\* shutdown has completed although the poll loop never returned and the
\* disconnect failed
C11_Witness ==
    /\ poll = "polling"
    /\ Occurrences(lifecycle, "log", {"telegram_shutdown_timeout"}) # {}
    /\ \E i \in 1..Len(lifecycle) : lifecycle[i] = Call("mongoManager.Close", TRUE)
    /\ lifecycle[Len(lifecycle)] = Log("shutdown_complete", "")
    /\ mpc = "exited"
    /\ exitCode = 0

\* C12: on a termination signal, the processing of every update that is
\* already in flight completes before the MongoDB client is closed: once
\* the signal has been received, mongoManager.Close is not called while
\* defaultHandler is still working on an update.
C12_InFlightDoneBeforeClose ==
    (/\ Occurrences(lifecycle, "log", {"shutdown_signal"}) # {}
     /\ Occurrences(lifecycle, "call", {"mongoManager.Close"}) # {})
    => inflight = 0

(***************************************************************************)
(* Claims about the dispatcher's steps and the command handlers            *)
(***************************************************************************)
\* the step of defaultHandler that decides on the group registration
GroupStep ==
    /\ hpc = "ensureGroup"
    /\ hpc' = "route"

\* C13: the dispatcher (with a group registrar wired) invokes EnsureGroup
\* for an update if and only if the update's chat is a platform group or
\* supergroup and its chat id is non-zero; for an update in a private chat,
\* in a chat of another type or without a chat it is never invoked and the
\* groups collection is left alone.
C13_GroupRegistrationIffGroupChat ==
    [][GroupStep =>
         LET meta == extractUpdateMeta(update)
             invoked == Occurrences(trace', "call", {"EnsureGroup"}) # {}
             inGroup == /\ meta.chatType \in {"group", "supergroup"}
                        /\ meta.chatID # 0
         IN /\ wiring.groupRegistrar => (invoked <=> inGroup)
            /\ ~wiring.groupRegistrar => ~invoked
            /\ ~invoked => groups' = groups
      ]_vars

\* a message in a supergroup has been registered, and the groups collection
\* holds the chat
C13_Witness ==
    /\ hpc = "route"
    /\ extractUpdateMeta(update).chatType = "supergroup"
    /\ Has(Call("EnsureGroup", FALSE))
    /\ Matching(groups, "chat_id", extractUpdateMeta(update).chatID) # {}

\* the step of defaultHandler that logs the update and routes it
RouteStep ==
    /\ hpc = "route"
    /\ hpc' # "route"

\* the two letters are the same up to case
SameLetter(c, d) ==
    \/ c = d
    \/ \E k \in 1..Len(LowerCase) : {c, d} = {LowerCase[k], UpperCase[k]}

\* the text is the command word: a "/", the word in any mix of cases, and
\* then nothing, a "@botname" suffix or arguments after a space
Addresses(text, word) ==
    LET t == TrimLeft(Tail(TrimSpace(text))) IN
    /\ Len(t) >= Len(word)
    /\ \A i \in 1..Len(word) : SameLetter(t[i], word[i])
    /\ Len(t) > Len(word) => t[Len(word) + 1] \in {" ", "@"}

\* the handler the claim expects for a message text
ExpectedHandler(text) ==
    LET t == TrimSpace(text) IN
    IF t = <<>> \/ Head(t) # "/" THEN "generic_message"
    ELSE IF Addresses(text, <<"s", "t", "a", "r", "t">>) THEN "command_start"
    ELSE IF Addresses(text, <<"p", "i", "n", "g">>) THEN "command_ping"
    ELSE IF Addresses(text, <<"s", "t", "a", "t", "u", "s">>) THEN "command_status"
    ELSE "command_unknown"

\* C14: for a message whose text begins with "/", the router takes the
\* command token case-insensitively, with any "@botname" suffix and
\* trailing arguments removed, and dispatches to the start, ping or status
\* handler when the token matches and to the unknown-command handler
\* otherwise; text that does not begin with "/" is dispatched to the
\* generic-message handler.
C14_RoutesByCommandToken ==
    [][(RouteStep /\ primaryMessage(update)) =>
         /\ hpc' = ExpectedHandler(update.text)
         /\ trace' = trace \o <<Log("telegram_update", update.kind),
                                 Log("telegram_route", ExpectedHandler(update.text))>>
      ]_vars

\* " /Start@b x" has been routed to the start handler
C14_Witness ==
    /\ hpc = "command_start"
    /\ update.kind = "message"
    /\ update.text = <<" ", "/", "S", "t", "a", "r", "t", "@", "b", " ", "x">>
    /\ Has(Log("telegram_route", "command_start"))

\* the step in which startCommandHandler runs
StartStep ==
    /\ hpc = "command_start"
    /\ hpc' = "idle"

\* C15: /start sends no message in any chat that is not a private chat (a
\* group, a supergroup, a chat of unknown type): it only logs the ignored
\* event; it replies only in a private chat, once.
C15_StartOnlyInPrivate ==
    [][StartStep =>
         LET chat == update.chat IN
         /\ chat.type # "private" =>
               /\ sent' = <<>>
               /\ Occurrences(trace', "call", {"SendMessage"}) = {}
               /\ Occurrences(trace', "log", {"command_start_ignored"}) # {}
         /\ (chat.type = "private" /\ chat.id # 0 /\ b) =>
               /\ Len(sent') = 1
               /\ sent'[1].chat_id = chat.id
               /\ Occurrences(trace', "log", {"command_start_ignored"}) = {}
      ]_vars

\* /start in a group has been handled: ignored, and nothing was sent
C15_Witness ==
    /\ hpc = "idle"
    /\ handled > 0
    /\ update.chat.type = "group"
    /\ Has(logCommandHandled("command_start"))
    /\ Has(Log("command_start_ignored", "group"))
    /\ b
    /\ sent = <<>>

\* the step in which pingCommandHandler runs
PingStep ==
    /\ hpc = "command_ping"
    /\ hpc' = "idle"

\* the /ping answers that report the given Mongo status: "pong", the
\* environment, an uptime in whole seconds and the status, one per line
PingReplies(status) ==
    {Join(<<"pong", "env: " \o wiring.appEnv,
            "uptime: " \o FormatInt(n) \o "s", "mongo: " \o status>>) :
        n \in 0..(MaxClock + 1)}

\* C16: /ping always replies, in every chat type (whenever the update has
\* a chat id and the handler has a client to send with): the reply
\* contains pong and reports mongo: ok when the live store check succeeds
\* and mongo: error when the check fails or no checker is configured; a
\* failed check never suppresses the reply.
C16_PingAlwaysReplies ==
    [][(PingStep /\ update.chat.id # 0 /\ b) =>
         LET checkedOk == Occurrences(trace', "call", {"Ping"}) # {}
                          /\ \A i \in Occurrences(trace', "call", {"Ping"}) :
                                trace'[i] = Call("Ping", FALSE)
         IN /\ Len(sent') = 1
            /\ Cardinality(Occurrences(trace', "call", {"SendMessage"})) = 1
            /\ sent'[1].chat_id = update.chat.id
            /\ wiring.mongoChecker =>
                  Cardinality(Occurrences(trace', "call", {"Ping"})) = 1
            /\ checkedOk => sent'[1].text \in PingReplies("ok")
            /\ ~checkedOk => sent'[1].text \in PingReplies("error")
      ]_vars

\* /ping in a group chat: the Mongo check has failed and the reply,
\* reporting mongo: error, has been sent
C16_Witness ==
    /\ hpc = "idle"
    /\ handled > 0
    /\ update.chat.type = "group"
    /\ Has(Call("Ping", TRUE))
    /\ Has(Log("command_ping_mongo_error", ""))
    /\ Len(sent) = 1
    /\ sent[1].text \in PingReplies("error")

\* the /status answer showing the two count strings
StatusText(userCount, groupCount) ==
    Join(<<"bot_status: running", "env: " \o wiring.appEnv,
           "connected_chats: " \o groupCount,
           "registered_users: " \o userCount>>)

\* the /status of the update is an authorized one: sent from a chat by the
\* configured owner, whose role was read and resolves to owner
AuthorizedStatus(tr) ==
    LET meta == extractUpdateMeta(update) IN
    /\ meta.chatID # 0
    /\ meta.userID = wiring.botOwnerID
    /\ \E i \in 1..Len(tr) : tr[i] = Call("GetByID", FALSE)
    /\ \E d \in DocsFor(users, "user_id", meta.userID) : ResolvesToOwner(d)

\* C17: for an authorized /status (with a stats provider wired) the user
\* count and the group count are both always attempted, each count that
\* fails is shown as the literal "error" independently of whether the
\* other one failed, and the reply is still sent (by a handler that has a
\* client to send with).
C17_CountsIndependent ==
    [][(StatusStep /\ AuthorizedStatus(trace') /\ wiring.statsProvider) =>
         LET userFailed == \E i \in 1..Len(trace') :
                              trace'[i] = Call("CountUsers", TRUE)
             groupFailed == \E i \in 1..Len(trace') :
                               trace'[i] = Call("CountGroups", TRUE)
             shown == StatusText(
                          IF userFailed THEN "error" ELSE FormatInt(Len(users)),
                          IF groupFailed THEN "error" ELSE FormatInt(Len(groups)))
         IN /\ Cardinality(Occurrences(trace', "call", {"CountUsers"})) = 1
            /\ Cardinality(Occurrences(trace', "call", {"CountGroups"})) = 1
            /\ b => /\ Cardinality(Occurrences(trace', "call", {"SendMessage"})) = 1
                    /\ sent' = <<[chat_id |-> extractUpdateMeta(update).chatID,
                                  text |-> shown]>>
      ]_vars

\* the owner's /status has been answered although the user count failed:
\* the users are shown as "error", the groups as their number
C17_Witness ==
    /\ hpc = "idle"
    /\ handled > 0
    /\ Has(Call("CountUsers", TRUE))
    /\ Has(Call("CountGroups", FALSE))
    /\ Has(Call("SendMessage", FALSE))
    /\ Len(sent) = 1
    /\ sent[1].text = StatusText("error", FormatInt(Len(groups)))

\* the events that report a failed send
SendFailedEvents ==
    {"command_start_send_failed", "command_ping_send_failed",
     "command_status_send_failed"}

\* C18: a command handler makes at most one outbound send call per handled
\* update: a failed send is logged, is never retried, and never crashes
\* the handler (the handler returns).
C18_OneSendNoRetry ==
    LET sends == Occurrences(trace, "call", {"SendMessage"}) IN
    /\ Cardinality(sends) <= 1
    /\ Len(sent) = Cardinality(sends)
    /\ \A i \in sends :
          /\ hpc = "idle"
          /\ i = Len(trace) - 1
          /\ trace[i + 1].kind = "log"
          /\ trace[i].info = "error" <=> trace[i + 1].name \in SendFailedEvents

\* the send of a /status answer has failed: the failure is logged, the
\* handler has returned and no second call was made
C18_Witness ==
    /\ hpc = "idle"
    /\ Has(logCommandHandled("command_status"))
    /\ Cardinality(Occurrences(trace, "call", {"SendMessage"})) = 1
    /\ trace[Len(trace) - 1] = Call("SendMessage", TRUE)
    /\ trace[Len(trace)].name = "command_status_send_failed"

(***************************************************************************)
(* Claims about argument checks and connection setup                       *)
(***************************************************************************)
\* the call of the operation returns an error at once: no store operation
\* is started and both collections are as they were
Rejected(op, id) ==
    /\ lastRet' = Ret(op, id, FALSE, TRUE)
    /\ users' = users
    /\ groups' = groups
    /\ wk' = wk
    /\ boot' = boot

\* C19: EnsureUser, EnsureGroup and EnsureOwner called with a zero id or a
\* nil context return an explicit error without issuing any store
\* operation, so the store is left unchanged.
C19_InvalidArgumentsRejected ==
    [][/\ \A p \in Workers, ctxOk \in BOOLEAN, userID \in UserIds :
             (EnsureUserCall(p, ctxOk, userID) /\ (~ctxOk \/ userID = 0))
             => Rejected("user", userID)
       /\ \A p \in Workers, ctxOk \in BOOLEAN, chatID \in ChatIds,
             title \in Titles :
             (EnsureGroupCall(p, ctxOk, chatID, title) /\ (~ctxOk \/ chatID = 0))
             => Rejected("group", chatID)
       /\ \A ctxOk \in BOOLEAN, ownerID \in OwnerIds :
             (EnsureOwnerCall(ctxOk, ownerID) /\ (~ctxOk \/ ownerID = 0))
             => Rejected("owner", ownerID)
       /\ \A p \in Workers : wk'[p].pc # "idle" => wk'[p].id # 0
       /\ boot'.pc # "idle" => boot'.ownerID # 0
       /\ \A i \in 1..Len(users') : users'[i]["user_id"] # 0
       /\ \A i \in 1..Len(groups') : groups'[i]["chat_id"] # 0
      ]_vars

\* on a store that holds users and a group, the last call, one with a zero
\* id, has returned an error and nothing is in progress
C19_Witness ==
    /\ users # <<>>
    /\ groups # <<>>
    /\ ncalls >= 2
    /\ lastRet.err
    /\ lastRet.id = 0
    /\ Quiet

\* the records of the lifecycle that use a Manager: its indexes, the
\* owner bootstrap on its users collection, its Close
ManagerUses ==
    Occurrences(lifecycle, "call",
                {"createIndexes users", "createIndexes groups",
                 "mongoManager.Close"})
    \cup Occurrences(lifecycle, "log",
                     {"mongo_connect", "mongo_indexes", "telegram_ready"})

\* C20: when the connectivity ping that follows a successful connect
\* fails, NewManager disconnects the just-established client (one
\* Disconnect call right after the ping), returns an error and returns no
\* Manager: the process ends with status 1 and nothing uses a Manager.
C20_PingFailureDisconnects ==
    \A i \in Occurrences(lifecycle, "call", {"client.Ping"}) :
        lifecycle[i] = Call("client.Ping", TRUE) =>
            /\ i > 1
            /\ lifecycle[i - 1] = Call("connectMongo", FALSE)
            /\ Len(lifecycle) = i + 1
            /\ lifecycle[i + 1].kind = "call"
            /\ lifecycle[i + 1].name = "client.Disconnect"
            /\ lifecycle[i + 1].info = "ok" => mongo = "disconnected"
            /\ mpc = "exited"
            /\ exitCode = 1
            /\ ManagerUses = {}
            /\ poll = "notStarted"

\* the connect has succeeded, the ping has failed and the client has been
\* disconnected
C20_Witness ==
    /\ Occurrences(lifecycle, "call", {"client.Ping"}) # {}
    /\ lifecycle[Len(lifecycle) - 1] = Call("client.Ping", TRUE)
    /\ lifecycle[Len(lifecycle)] = Call("client.Disconnect", FALSE)
    /\ mongo = "disconnected"
    /\ exitCode = 1

(***************************************************************************)
(* Claims about the store manager                                          *)
(***************************************************************************)
\* C21: EnsureBaseIndexes creates the users (user_id) index first and the
\* groups (chat_id) index second; if creating the users index fails, the
\* groups index creation is never attempted and the error is returned
\* (main ends with status 1).
C21_IndexesFailFast ==
    LET usersCalls == Occurrences(lifecycle, "call", {"createIndexes users"})
        groupsCalls == Occurrences(lifecycle, "call", {"createIndexes groups"})
    IN /\ Cardinality(usersCalls) <= 1
       /\ Cardinality(groupsCalls) <= 1
       /\ \A j \in groupsCalls :
             /\ j - 1 \in usersCalls
             /\ lifecycle[j - 1] = Call("createIndexes users", FALSE)
       /\ \A i \in usersCalls :
             /\ lifecycle[i].info = "error" =>
                   /\ groupsCalls = {}
                   /\ i = Len(lifecycle)
                   /\ mpc = "exited"
                   /\ exitCode = 1
             /\ lifecycle[i].info = "ok" => i + 1 \in groupsCalls
       /\ \A j \in groupsCalls :
             lifecycle[j].info = "error" => (mpc = "exited" /\ exitCode = 1)

\* the users index could not be created: it was the last thing done, and
\* the process has ended with status 1
C21_Witness ==
    /\ lifecycle # <<>>
    /\ lifecycle[Len(lifecycle)] = Call("createIndexes users", TRUE)
    /\ mongo = "connected"
    /\ exitCode = 1

(***************************************************************************)
(* The store manager, called as its tests call it                          *)
(***************************************************************************)
MaxManagerCalls == 4

\* the NewManager and Close calls made so far
ManagerCalls ==
    Occurrences(lifecycle, "call", {"NewManager", "Manager.Close"})

InitManager ==
    /\ users = <<>>
    /\ InitStore
    /\ DispatcherOff
    /\ MainOff

\* NewManager called by a holder that has no Manager yet: what it calls
\* and returns; the Manager is returned only when connect and ping succeed
ManagerNew(connectErr, pingErr, disconnectErr) ==
    /\ manager = "nil"
    /\ Cardinality(ManagerCalls) < MaxManagerCalls
    /\ IF connectErr
       THEN /\ lifecycle' = lifecycle \o <<Call("connectMongo", TRUE),
                                           Call("NewManager", TRUE)>>
            /\ UNCHANGED <<mongo, manager>>
       ELSE IF pingErr
       THEN /\ lifecycle' = lifecycle \o <<Call("connectMongo", FALSE),
                                           Call("client.Ping", TRUE),
                                           Call("client.Disconnect", disconnectErr),
                                           Call("NewManager", TRUE)>>
            /\ mongo' = IF disconnectErr THEN "connected" ELSE "disconnected"
            /\ UNCHANGED manager
       ELSE /\ lifecycle' = lifecycle \o <<Call("connectMongo", FALSE),
                                           Call("client.Ping", FALSE),
                                           Call("NewManager", FALSE)>>
            /\ mongo' = "connected"
            /\ manager' = "set"
    /\ UNCHANGED <<mpc, poll, exitCode, inflight, storeVars, dispVars>>

\* a slip: the context is checked before the receiver
ManagerCloseContextFirst(ctxOk, err) ==
    /\ Cardinality(ManagerCalls) < MaxManagerCalls
    /\ IF ~ctxOk
       THEN /\ lifecycle' = Append(lifecycle, Call("Manager.Close", TRUE))
            /\ UNCHANGED mongo
       ELSE IF manager = "nil"
       THEN /\ lifecycle' = Append(lifecycle, Call("Manager.Close", FALSE))
            /\ UNCHANGED mongo
       ELSE /\ lifecycle' = lifecycle \o <<Call("client.Disconnect", err),
                                           Call("Manager.Close", err)>>
            /\ mongo' = IF err THEN mongo ELSE "disconnected"
    /\ UNCHANGED <<mpc, poll, exitCode, inflight, manager, storeVars, dispVars>>

\* Manager.Close: nil for a nil Manager or one without a client, an error
\* for a nil context, else whatever client.Disconnect returns; the Manager
\* keeps its client afterwards
ManagerClose(ctxOk, err) ==
    /\ Cardinality(ManagerCalls) < MaxManagerCalls
    /\ IF manager = "nil"
       THEN /\ lifecycle' = Append(lifecycle, Call("Manager.Close", FALSE))
            /\ UNCHANGED mongo
       ELSE IF ~ctxOk
       THEN /\ lifecycle' = Append(lifecycle, Call("Manager.Close", TRUE))
            /\ UNCHANGED mongo
       ELSE /\ lifecycle' = lifecycle \o <<Call("client.Disconnect", err),
                                           Call("Manager.Close", err)>>
            /\ mongo' = IF err THEN mongo ELSE "disconnected"
    /\ UNCHANGED <<mpc, poll, exitCode, inflight, manager, storeVars, dispVars>>

NextManager ==
    \/ \E connectErr \in BOOLEAN, pingErr \in BOOLEAN, disconnectErr \in BOOLEAN :
          ManagerNew(connectErr, pingErr, disconnectErr)
    \/ \E ctxOk \in BOOLEAN, err \in BOOLEAN : ManagerClose(ctxOk, err)

SpecManager == InitManager /\ [][NextManager]_vars

\* what the Close call of this step has returned
CloseReturned(err) ==
    lifecycle'[Len(lifecycle')] = Call("Manager.Close", err)

\* C22 as stated: Close is idempotent: called with a context on a Manager
\* that was never initialized, or on one that has already been closed, it
\* returns nil.
C22_CloseIdempotent ==
    [][\A ctxOk \in BOOLEAN, err \in BOOLEAN :
          (/\ ManagerClose(ctxOk, err)
           /\ ctxOk
           /\ (manager = "nil" \/ mongo = "disconnected"))
          => CloseReturned(FALSE)
      ]_vars

\* C22, amended: Close returns nil, calling nothing, on a Manager that was
\* never initialized; on an initialized Manager, already closed or not, a
\* Close with a context calls client.Disconnect once and returns what that
\* call returns.
C22_CloseOnNilAndClosed ==
    [][\A ctxOk \in BOOLEAN, err \in BOOLEAN :
          ManagerClose(ctxOk, err) =>
             /\ manager = "nil" =>
                   /\ CloseReturned(FALSE)
                   /\ lifecycle' = Append(lifecycle, Call("Manager.Close", FALSE))
                   /\ mongo' = mongo
             /\ (manager = "set" /\ ctxOk) =>
                   /\ Len(lifecycle') = Len(lifecycle) + 2
                   /\ lifecycle'[Len(lifecycle) + 1].name = "client.Disconnect"
                   /\ lifecycle'[Len(lifecycle')].name = "Manager.Close"
                   /\ lifecycle'[Len(lifecycle')].info =
                         lifecycle'[Len(lifecycle) + 1].info
      ]_vars

\* after a NewManager that failed, Close has been called on the Manager
\* that was never initialized and has returned nil
C22_Witness ==
    /\ manager = "nil"
    /\ lifecycle # <<>>
    /\ lifecycle[Len(lifecycle)] = Call("Manager.Close", FALSE)
    /\ Occurrences(lifecycle, "call", {"NewManager"}) # {}

(***************************************************************************)
(* Claims about the stamps of the stored records                           *)
(***************************************************************************)
\* the step in which worker p's EnsureGroup call returns without an error
GroupReturns(p) ==
    /\ wk[p].pc = "update"
    /\ wk[p].op = "group"
    /\ wk'[p].pc = "idle"
    /\ ~lastRet'.err

\* C23: a group's joined_at is set once, by the EnsureGroup call that
\* inserts the record (where last_seen_at equals joined_at and created=true
\* is returned); every later EnsureGroup call for that chat returns
\* created=false and leaves joined_at unchanged while refreshing
\* last_seen_at to its own now.
C23_JoinedAtSetOnce ==
    [][/\ \A i \in 1..Len(groups) :
             /\ Len(groups') >= Len(groups)
             /\ groups'[i]["chat_id"] = groups[i]["chat_id"]
             /\ groups'[i]["joined_at"] = groups[i]["joined_at"]
       /\ \A p \in Workers : GroupReturns(p) =>
             LET known == Matching(groups, "chat_id", wk[p].id) IN
             IF known = {}
             THEN /\ lastRet' = Ret("group", wk[p].id, TRUE, FALSE)
                  /\ Len(groups') = Len(groups) + 1
                  /\ groups'[Len(groups')]["chat_id"] = wk[p].id
                  /\ groups'[Len(groups')]["joined_at"] = wk[p].now
                  /\ groups'[Len(groups')]["last_seen_at"] = wk[p].now
             ELSE /\ lastRet' = Ret("group", wk[p].id, FALSE, FALSE)
                  /\ Len(groups') = Len(groups)
                  /\ \A i \in known : groups'[i]["last_seen_at"] = wk[p].now
      ]_vars

\* a group inserted at one time has been seen again later: the second call
\* returned created=false, joined_at is the first time, last_seen_at the
\* second
C23_Witness ==
    /\ Len(groupRets[20]) = 2
    /\ groupRets[20][1].created
    /\ ~groupRets[20][2].created
    /\ \E d \in DocsFor(groups, "chat_id", 20) :
          d["last_seen_at"] > d["joined_at"]

(***************************************************************************)
(* Claims about the classification of updates                              *)
(***************************************************************************)
\* the chat type the dispatcher and the handlers work with for the update
\* in hand
NormalizedChatType == normalizeChatType(extractUpdateMeta(update).chatType)

\* C24 as stated: for every platform chat type value, the chat type used by
\* the dispatcher and handlers after normalization is exactly one of
\* private, group or unknown.
C24_ChatTypeOneOfThree ==
    hpc # "idle" => NormalizedChatType \in {"private", "group", "unknown"}

\* C24, amended: the chat type used after normalization is private for a
\* private chat, group for both group and supergroup, unknown for a
\* missing chat type, and any other platform chat type (channel) is kept
\* as it is; it is the chat type the /start handler logs when it ignores
\* the command.
C24_ChatTypeNormalized ==
    LET raw == extractUpdateMeta(update).chatType IN
    /\ hpc # "idle" =>
          /\ raw = "private" <=> NormalizedChatType = "private"
          /\ raw \in {"group", "supergroup"} <=> NormalizedChatType = "group"
          /\ raw = "" <=> NormalizedChatType = "unknown"
          /\ raw \notin {"private", "group", "supergroup", ""} =>
                NormalizedChatType = raw
    /\ \A i \in Occurrences(trace, "log", {"command_start_ignored"}) :
          /\ raw # "private"
          /\ raw \in {"group", "supergroup"} => trace[i].info = "group"
          /\ raw = "" => trace[i].info = "unknown"
          /\ raw = "channel" => trace[i].info = "channel"

\* a /start from a supergroup has been ignored under the chat type group
C24_Witness ==
    /\ hpc = "idle"
    /\ update.chat.type = "supergroup"
    /\ Has(Log("command_start_ignored", "group"))

\* the event shapes extractUpdateMeta tells apart
EventShapes ==
    {"message", "edited_message", "callback_query", "my_chat_member",
     "chat_member"}

\* C25: each of the event shapes message, edited_message, callback_query,
\* my_chat_member and chat_member is classified with the update type of
\* the same name, and an update with none of those payloads is classified
\* unknown with empty text and zero user id, chat id, chat type and chat
\* title (so that nothing is registered or sent for it).
C25_UpdateClassified ==
    LET meta == extractUpdateMeta(update) IN
    /\ \A i \in Occurrences(trace, "log", {"telegram_update"}) :
          trace[i].info = IF update.kind \in EventShapes THEN update.kind
                          ELSE "unknown"
    /\ (hpc # "idle" /\ update.kind \in EventShapes) =>
          /\ meta.updateType = update.kind
          /\ meta.userID = update.from
    /\ (hpc # "idle" /\ update.kind \notin EventShapes) =>
          /\ meta.updateType = "unknown"
          /\ meta.text = <<>>
          /\ meta.userID = 0
          /\ meta.chatID = 0
          /\ meta.chatType = ""
          /\ meta.chatTitle = <<>>
    /\ update.kind \notin EventShapes =>
          /\ Occurrences(trace, "call", {"EnsureUser", "EnsureGroup"}) = {}
          /\ sent = <<>>

\* a chat_member update from a supergroup has been registered and logged
\* under its own name
C25_Witness ==
    /\ hpc = "idle"
    /\ update.kind = "chat_member"
    /\ Has(Log("telegram_update", "chat_member"))
    /\ Has(Call("EnsureGroup", FALSE))

(***************************************************************************)
(* UserRepository.Create                                                   *)
(***************************************************************************)
\* the most Create calls in one behaviour
MaxCreates == 2

\* the zero time.Time, for which IsZero() holds
ZeroTime == -1

\* a time the caller has put into the User before the call
EarlierTime == 1

\* the User values a caller may pass: with or without an id, a role and
\* each of the three times
NewUsers ==
    [UserID : {0, 5, 7}, Role : {"", RoleAdmin},
     CreatedAt : {ZeroTime, EarlierTime}, UpdatedAt : {ZeroTime, EarlierTime},
     LastSeenAt : {ZeroTime, EarlierTime}]

\* the document InsertOne stores for a User
UserDoc(user) ==
    [user_id |-> user.UserID, role |-> user.Role, created_at |-> user.CreatedAt,
     updated_at |-> user.UpdatedAt, last_seen_at |-> user.LastSeenAt]

\* a slip: created_at is stamped even when the caller has set it
FilledStampsCreated(user, now) ==
    [user EXCEPT !.Role = IF @ = "" THEN RoleUser ELSE @,
                 !.LastSeenAt = IF @ = ZeroTime THEN now ELSE @,
                 !.CreatedAt = now,
                 !.UpdatedAt = now]

\* Create: the User as it is inserted: the role defaulted, last_seen_at
\* and created_at stamped when zero, updated_at stamped
Filled(user, now) ==
    [user EXCEPT !.Role = IF @ = "" THEN RoleUser ELSE @,
                 !.LastSeenAt = IF @ = ZeroTime THEN now ELSE @,
                 !.CreatedAt = IF @ = ZeroTime THEN now ELSE @,
                 !.UpdatedAt = now]

\* UserRepository.Create: the argument checks, then InsertOne, which fails
\* on a store error and on a user_id the unique index already holds
Create(ctxOk, user, insertErr) ==
    /\ Quiet
    /\ ncalls < MaxCreates
    /\ ncalls' = ncalls + 1
    /\ IF ~ctxOk \/ user.UserID = 0
       THEN /\ lastRet' = Ret("create", user.UserID, FALSE, TRUE)
            /\ UNCHANGED <<users, clock>>
       ELSE \E t \in Readings(clock) :
            /\ clock' = t
            /\ IF insertErr \/ Matching(users, "user_id", user.UserID) # {}
               THEN /\ lastRet' = Ret("create", user.UserID, FALSE, TRUE)
                    /\ UNCHANGED users
               ELSE /\ users' = Append(users,
                                       UserDoc(Filled(user, Truncate(t, TicksPerMs))))
                    /\ lastRet' = Ret("create", user.UserID, TRUE, FALSE)
    /\ UNCHANGED <<groups, wk, boot, userRets, groupRets, dispVars, mainVars>>

NextCreate ==
    \E ctxOk \in BOOLEAN, user \in NewUsers, insertErr \in BOOLEAN :
        Create(ctxOk, user, insertErr)

SpecCreate == InitRegistrars /\ [][NextCreate]_vars

\* the time the caller set, or now when the caller left it zero
Stamp(given, now) == IF given = ZeroTime THEN now ELSE given

\* C26 as stated: Create defaults role to user when absent, stamps
\* created_at, updated_at and last_seen_at with now unless the caller
\* pre-populated them, and rejects a zero user_id without inserting
\* anything.
C26_CreateStampsUnlessSet ==
    [][\A ctxOk \in BOOLEAN, user \in NewUsers, insertErr \in BOOLEAN :
          Create(ctxOk, user, insertErr) =>
             LET now == Truncate(clock', TicksPerMs) IN
             /\ user.UserID = 0 => (users' = users /\ lastRet'.err)
             /\ users' # users =>
                   /\ users' = Append(users, users'[Len(users')])
                   /\ users'[Len(users')] =
                         [user_id |-> user.UserID,
                          role |-> IF user.Role = "" THEN RoleUser ELSE user.Role,
                          created_at |-> Stamp(user.CreatedAt, now),
                          updated_at |-> Stamp(user.UpdatedAt, now),
                          last_seen_at |-> Stamp(user.LastSeenAt, now)]
      ]_vars

\* C26, amended: Create defaults role to user when absent, stamps
\* created_at and last_seen_at with now unless the caller pre-populated
\* them, stamps updated_at with now in every case, and rejects a zero
\* user_id without inserting anything.
C26_CreateStamps ==
    [][\A ctxOk \in BOOLEAN, user \in NewUsers, insertErr \in BOOLEAN :
          Create(ctxOk, user, insertErr) =>
             LET now == Truncate(clock', TicksPerMs) IN
             /\ user.UserID = 0 => (users' = users /\ lastRet'.err)
             /\ (ctxOk /\ user.UserID # 0 /\ ~insertErr
                 /\ Matching(users, "user_id", user.UserID) = {}) =>
                   users' # users
             /\ users' # users =>
                   /\ ~lastRet'.err
                   /\ users' = Append(users, users'[Len(users')])
                   /\ users'[Len(users')] =
                         [user_id |-> user.UserID,
                          role |-> IF user.Role = "" THEN RoleUser ELSE user.Role,
                          created_at |-> Stamp(user.CreatedAt, now),
                          updated_at |-> now,
                          last_seen_at |-> Stamp(user.LastSeenAt, now)]
      ]_vars

\* a user passed without a role and with created_at set has been inserted:
\* role user, created_at as given, updated_at and last_seen_at stamped
\* later
C26_Witness ==
    /\ lastRet = Ret("create", 5, TRUE, FALSE)
    /\ \E d \in DocsFor(users, "user_id", 5) :
          /\ d["role"] = RoleUser
          /\ d["created_at"] = EarlierTime
          /\ d["updated_at"] = 2
          /\ d["last_seen_at"] = 2

(***************************************************************************)
(* The health endpoint: Server.handleHealth, called as its tests call it   *)
(***************************************************************************)
\* the most /healthz requests in one behaviour
MaxRequests == 4

\* http.StatusOK, what net/http answers when the handler writes a body
\* without calling WriteHeader
StatusOK == 200

\* json.Encoder.Encode of a response: the fields in order, mongo left out
\* when empty (omitempty)
Encode(resp) ==
    <<<<"status", resp.Status>>>> \o
        (IF resp.Mongo = "" THEN <<>> ELSE <<<<"mongo", resp.Mongo>>>>)

\* what the ResponseWriter holds when the handler returns; the body is
\* empty when writing it failed
Response(code, contentType, body) ==
    [kind |-> "response", name |-> "healthz", info |-> contentType,
     code |-> code, body |-> body]

\* the /healthz requests answered so far
Requests == Occurrences(lifecycle, "response", {"healthz"})

\* NewServer has been given the store manager as its MongoChecker, or nil
InitHealth ==
    /\ users = <<>>
    /\ InitStore
    /\ DispatcherOff
    /\ mpc = "off"
    /\ lifecycle = <<>>
    /\ poll = "notStarted"
    /\ mongo = "none"
    /\ exitCode = -1
    /\ inflight = 0
    /\ manager \in {"nil", "set"}

\* a slip: a missing checker is logged but not reported
handleHealthForgetsMissing(pingErr, encodeErr) ==
    /\ Cardinality(Requests) < MaxRequests
    /\ LET checked ==
               IF manager = "nil"
               THEN <<Log("health_mongo_missing", "warn")>>
               ELSE <<Call("mongoChecker.Ping", pingErr)>> \o
                    (IF pingErr THEN <<Log("health_mongo_error", "warn")>> ELSE <<>>)
           mongoStatus == IF manager # "nil" /\ pingErr THEN "error" ELSE "ok"
           resp == IF mongoStatus # "ok"
                   THEN [Status |-> "degraded", Mongo |-> "error"]
                   ELSE [Status |-> "ok", Mongo |-> ""]
       IN  lifecycle' = lifecycle \o checked \o
               (IF encodeErr
                THEN <<Log("health_write_error", "error"),
                       Response(StatusOK, "application/json", <<>>)>>
                ELSE <<Response(StatusOK, "application/json", Encode(resp))>>)
    /\ UNCHANGED <<mpc, poll, mongo, exitCode, inflight, manager, storeVars, dispVars>>

\* Server.handleHealth: ping through the checker when there is one, report
\* degraded when there is none or the ping failed, and encode the response;
\* the status code is never set, so it is net/http's 200
handleHealth(pingErr, encodeErr) ==
    /\ Cardinality(Requests) < MaxRequests
    /\ LET checked ==
               IF manager = "nil"
               THEN <<Log("health_mongo_missing", "warn")>>
               ELSE <<Call("mongoChecker.Ping", pingErr)>> \o
                    (IF pingErr THEN <<Log("health_mongo_error", "warn")>> ELSE <<>>)
           mongoStatus == IF manager = "nil" \/ pingErr THEN "error" ELSE "ok"
           resp == IF mongoStatus # "ok"
                   THEN [Status |-> "degraded", Mongo |-> "error"]
                   ELSE [Status |-> "ok", Mongo |-> ""]
       IN  lifecycle' = lifecycle \o checked \o
               (IF encodeErr
                THEN <<Log("health_write_error", "error"),
                       Response(StatusOK, "application/json", <<>>)>>
                ELSE <<Response(StatusOK, "application/json", Encode(resp))>>)
    /\ UNCHANGED <<mpc, poll, mongo, exitCode, inflight, manager, storeVars, dispVars>>

NextHealth ==
    \E pingErr \in BOOLEAN, encodeErr \in BOOLEAN : handleHealth(pingErr, encodeErr)

SpecHealth == InitHealth /\ [][NextHealth]_vars

\* the ping of a request, if the request made one: the call record that
\* precedes the response with only log records in between
PingOf(i) ==
    {j \in 1..(i - 1) :
        /\ lifecycle[j].kind = "call"
        /\ lifecycle[j].name = "mongoChecker.Ping"
        /\ \A k \in (j + 1)..(i - 1) : lifecycle[k].kind = "log"}

\* C27: each /healthz response that is written reports status ok, and
\* nothing else, if and only if a checker is configured and its ping for
\* this request succeeded; otherwise it reports status degraded with mongo
\* error; the status code is 200 in every case, also when writing the body
\* failed.
C27_HealthOkIffPingOk ==
    \A i \in Requests :
        LET r == lifecycle[i]
            pinged == manager # "nil" /\ \E j \in PingOf(i) : lifecycle[j].info = "ok"
        IN  /\ r.code = StatusOK
            /\ (manager = "nil") = (PingOf(i) = {})
            /\ r.body # <<>> =>
                  /\ pinged <=> r.body = <<<<"status", "ok">>>>
                  /\ ~pinged <=>
                        r.body = <<<<"status", "degraded">>, <<"mongo", "error">>>>

\* a server with a checker has answered ok after a good ping and degraded
\* after a failed one
C27_Witness ==
    /\ manager = "set"
    /\ \E i, j \in Requests :
          /\ i < j
          /\ lifecycle[i].body = <<<<"status", "ok">>>>
          /\ lifecycle[j].body = <<<<"status", "degraded">>, <<"mongo", "error">>>>
          /\ lifecycle[j].code = StatusOK

(***************************************************************************)
(* The owner role while EnsureOwner and EnsureUser calls run                *)
(***************************************************************************)
\* the number of records with role owner
Owners(coll) == Cardinality(OwnerRecords(coll))

\* C28 as stated, at the moments when the latest registrar call to have
\* returned is a successful EnsureOwner (other calls, a later EnsureOwner
\* with a different owner id among them, may be in progress): the users
\* store holds exactly one record with role owner.
C28_ExactlyOneOwnerAlways ==
    (lastRet.op = "owner" /\ ~lastRet.err) => Owners(users) = 1

\* C28, amended: a successful EnsureOwner leaves exactly one record with
\* role owner, and from then on every step of an EnsureOwner or EnsureUser
\* call keeps at most one; the only step that takes the role from the one
\* owner is the demote step of a later EnsureOwner with a different owner
\* id, after which no record has role owner until an EnsureOwner upsert
\* succeeds.
C28_AtMostOneOwner ==
    [][/\ OwnerReturnsOk => Owners(users') = 1
       /\ Owners(users) <= 1 => Owners(users') <= 1
       /\ (Owners(users) = 1 /\ Owners(users') # 1) =>
             /\ boot.pc = "demote"
             /\ boot'.pc = "upsert"
             /\ Owners(users') = 0
             /\ \A i \in OwnerRecords(users) : users[i]["user_id"] # boot.ownerID
       /\ (Owners(users) = 0 /\ Owners(users') # 0) => OwnerReturnsOk
      ]_vars

\* after EnsureOwner(5) had made user 5 the owner in this run, a later
\* EnsureOwner(9) has returned success while an EnsureUser call is in
\* progress: 5 is admin, 9 the one owner
C28_Witness ==
    /\ lastRet = Ret("owner", 9, TRUE, FALSE)
    /\ \E p \in Workers : wk[p].pc # "idle"
    /\ \E d \in DocsFor(users, "user_id", 5) :
          d["role"] = RoleAdmin /\ d["created_at"] = 1
    /\ OwnerRecords(users) = Matching(users, "user_id", 9)

(***************************************************************************)
(* The three times of a user record, write by write                        *)
(***************************************************************************)
\* a time field of a document, the zero time when the document lacks it
TimeOf(doc, f) == Field(doc, f, ZeroTime)

\* created_at == updated_at == last_seen_at
AllStampsEqual(doc) ==
    /\ TimeOf(doc, "created_at") = TimeOf(doc, "updated_at")
    /\ TimeOf(doc, "updated_at") = TimeOf(doc, "last_seen_at")

\* updated_at == last_seen_at
TouchStampsEqual(doc) == TimeOf(doc, "updated_at") = TimeOf(doc, "last_seen_at")

\* C29 as stated: whichever operation writes the users store (EnsureUser,
\* or the demote or upsert step of EnsureOwner), a record it inserts has
\* created_at == updated_at == last_seen_at and a record it changes has
\* updated_at == last_seen_at right after the write.
C29_StampsEqualAfterEveryWrite ==
    [][\A i \in 1..Len(users') :
          /\ i > Len(users) => AllStampsEqual(users'[i])
          /\ (i <= Len(users) /\ users'[i] # users[i]) => TouchStampsEqual(users'[i])
      ]_vars

\* C29, amended: a record inserted by EnsureUser has created_at ==
\* updated_at == last_seen_at == the call's now, and after every later
\* EnsureUser write updated_at == last_seen_at == the call's now with
\* created_at unchanged; the demote and upsert steps of EnsureOwner write
\* updated_at (the upsert also created_at on insert) and never
\* last_seen_at, which stays as it was and is absent on a record that
\* EnsureOwner inserted.
C29_StampsAfterWrite ==
    [][/\ \A p \in Workers :
            EnsureUserUpdate(p) =>
               /\ Matching(users', "user_id", wk[p].id) # {}
               /\ \A i \in Matching(users', "user_id", wk[p].id) :
                     /\ TouchStampsEqual(users'[i])
                     /\ TimeOf(users'[i], "updated_at") = wk[p].now
                     /\ IF i > Len(users)
                        THEN AllStampsEqual(users'[i])
                        ELSE TimeOf(users'[i], "created_at") =
                                TimeOf(users[i], "created_at")
       /\ (EnsureOwnerDemote \/ EnsureOwnerUpsert) =>
             \A i \in 1..Len(users') :
                /\ i > Len(users) =>
                      /\ TimeOf(users'[i], "created_at") = boot.now
                      /\ TimeOf(users'[i], "updated_at") = boot.now
                      /\ "last_seen_at" \notin DOMAIN users'[i]
                /\ (i <= Len(users) /\ users'[i] # users[i]) =>
                      /\ TimeOf(users'[i], "updated_at") = boot.now
                      /\ TimeOf(users'[i], "last_seen_at") =
                            TimeOf(users[i], "last_seen_at")
                      /\ TimeOf(users'[i], "created_at") =
                            TimeOf(users[i], "created_at")
      ]_vars

\* EnsureUser has inserted user 7 and later touched it at a later time,
\* and EnsureOwner has inserted owner 9 without a last_seen_at
C29_Witness ==
    /\ \E d \in DocsFor(users, "user_id", 7) :
          /\ TimeOf(d, "created_at") = 0
          /\ TimeOf(d, "updated_at") = 2
          /\ TimeOf(d, "last_seen_at") = 2
    /\ \E d \in DocsFor(users, "user_id", 9) :
          d["role"] = RoleOwner /\ "last_seen_at" \notin DOMAIN d
    /\ Len(userRets[7]) = 2

(***************************************************************************)
(* last_seen_at and updated_at under repeated and concurrent deliveries    *)
(***************************************************************************)
\* the time fields f of the record do not move back in this step
Forward(old, new, fields) == \A f \in fields : TimeOf(new, f) >= TimeOf(old, f)

\* C30 as stated: under repeated delivery of events for the same user or
\* group, concurrent handling included, no step of an EnsureUser or
\* EnsureGroup call replaces a stored last_seen_at or updated_at with an
\* earlier value.
C30_StampsOnlyForward ==
    [][/\ \A i \in 1..Len(users) :
            Forward(users[i], users'[i], {"last_seen_at", "updated_at"})
       /\ \A i \in 1..Len(groups) :
            Forward(groups[i], groups'[i], {"last_seen_at"})
      ]_vars

\* C30, amended: each EnsureUser or EnsureGroup call writes the time it
\* read on entry; with a wall clock that does not step back, the stored
\* last_seen_at and updated_at move forward (or stay) whenever no other
\* call for the same id has written since this call read its time; a call
\* overtaken by such a write may replace them with an earlier value.
C30_StampsForwardUnlessOvertaken ==
    [][\A p \in Workers :
          /\ EnsureUserUpdate(p) =>
                \A i \in Matching(users, "user_id", wk[p].id) :
                   /\ TimeOf(users'[i], "last_seen_at") = wk[p].now
                   /\ TimeOf(users'[i], "updated_at") = wk[p].now
                   /\ Len(userRets[wk[p].id]) = wk[p].startAt =>
                         Forward(users[i], users'[i], {"last_seen_at", "updated_at"})
          /\ EnsureGroupUpdate(p) =>
                \A i \in Matching(groups, "chat_id", wk[p].id) :
                   /\ TimeOf(groups'[i], "last_seen_at") = wk[p].now
                   /\ Len(groupRets[wk[p].id]) = wk[p].startAt =>
                         Forward(groups[i], groups'[i], {"last_seen_at"})
      ]_vars

\* user 7 has been touched by a call that began after the inserting call
\* had returned: both times have moved forward from 0 to 2
C30_Witness ==
    /\ Len(userRets[7]) = 2
    /\ userRets[7][2].startAt = 1
    /\ lastRet = Ret("user", 7, FALSE, FALSE)
    /\ \E d \in DocsFor(users, "user_id", 7) :
          /\ TimeOf(d, "created_at") = 0
          /\ TimeOf(d, "last_seen_at") = 2
          /\ TimeOf(d, "updated_at") = 2

(***************************************************************************)
(* The owner role while updates are dispatched                             *)
(***************************************************************************)
\* the user ids of the records with role owner
OwnerIdsOf(coll) == {Field(coll[i], "user_id", 0) : i \in OwnerRecords(coll)}

\* a step of worker p's EnsureUser call (its entry, accepted or rejected,
\* its UpdateOne, or the failure of it), the one write to the users store
\* that the handling of an update makes
EnsureUserStep(p) ==
    \/ wk'[p] # wk[p]
    \/ p = FreeWorker /\ ncalls' # ncalls /\ lastRet'.op = "user"

\* C31: whatever EnsureOwner has left in the users store, no step of an
\* EnsureUser call made for an update (from the owner or from any other
\* user, the calls of concurrently handled updates interleaved) changes
\* which users have role owner: the owner's record keeps the role, and no
\* other record, existing or inserted, gets it.
C31_DispatchKeepsOwner ==
    [][\A p \in Workers : EnsureUserStep(p) =>
          /\ OwnerIdsOf(users') = OwnerIdsOf(users)
          /\ \A i \in 1..Len(users) : users'[i]["role"] = users[i]["role"]
          /\ \A i \in (Len(users) + 1)..Len(users') : users'[i]["role"] = RoleUser
      ]_vars

\* EnsureOwner(5) has inserted the owner's record in this run; since then
\* EnsureUser has touched it for an update from the owner and has inserted
\* user 7: 5 is still the one owner
C31_Witness ==
    /\ Len(userRets[5]) = 1
    /\ Len(userRets[7]) = 1
    /\ userRets[7][1].created
    /\ OwnerIdsOf(users) = {5}
    /\ \E d \in DocsFor(users, "user_id", 5) :
          /\ d["created_at"] = 1
          /\ "last_seen_at" \in DOMAIN d
    /\ \E d \in DocsFor(users, "user_id", 7) : d["role"] = RoleUser

(***************************************************************************)
(* EnsureOwner, step by step                                               *)
(***************************************************************************)
\* the EnsureOwner call in progress moves on in this step
OwnerStepFrom(pc) == boot.pc = pc /\ boot' # boot

\* the upsert of the call in progress, applied to the store
OwnerUpsert(coll) ==
    UpdateOne(coll, "user_id", boot.ownerID, OwnerSet(boot.ownerID, boot.now),
              OwnerSetOnInsert(boot.now), TRUE)

\* C32: the demote step of EnsureOwner either succeeds, with any number of
\* records matched (zero included), and the call goes on to the upsert
\* step, or fails, and the call returns the error at once with the store
\* untouched; the upsert is attempted only by a call whose demote step
\* succeeded, and such a call returns only through it.
C32_UpsertIffDemoteSucceeded ==
    [][/\ OwnerStepFrom("demote") =>
             \/ /\ boot' = [boot EXCEPT
                               !.pc = "upsert",
                               !.demoted = Cardinality(OwnerIdsOf(users) \ {boot.ownerID})]
                /\ users' = DemoteOwners(users, boot.ownerID, boot.now).docs
                /\ lastRet' = lastRet
             \/ /\ boot' = IdleBoot
                /\ lastRet' = Ret("owner", boot.ownerID, FALSE, TRUE)
                /\ users' = users
       /\ boot'.pc = "upsert" => (boot.pc = "upsert" \/ OwnerStepFrom("demote"))
       /\ OwnerStepFrom("upsert") =>
             /\ boot' = IdleBoot
             /\ lastRet'.op = "owner"
             /\ IF lastRet'.err
                THEN users' = users
                ELSE users' = OwnerUpsert(users).docs
       /\ (boot.pc # "upsert" /\ ~OwnerStepFrom("demote")) =>
             OwnerIdsOf(users') \subseteq OwnerIdsOf(users)
      ]_vars

\* EnsureOwner(9) has returned success on a store without any owner: its
\* demote step matched nothing and its upsert inserted the owner
C32_Witness ==
    /\ lastRet = Ret("owner", 9, TRUE, FALSE)
    /\ OwnerIdsOf(users) = {9}
    /\ \A i \in 1..Len(users) : users[i]["role"] # RoleAdmin
    /\ Len(users) = 2

\* the step in which the EnsureOwner call in progress returns the error of
\* its upsert, its demote step having succeeded
OwnerUpsertFails ==
    /\ boot.pc = "upsert"
    /\ boot'.pc = "idle"
    /\ lastRet'.op = "owner"
    /\ lastRet'.err

\* C33: when the demote step of EnsureOwner has succeeded and the upsert
\* fails, EnsureOwner returns an error and leaves the store as the demote
\* step left it: the owners it demoted stay admin, no record with a
\* user_id other than ownerID has role owner, and ownerID's record is as
\* it was (so the store may hold no owner at all).
C33_FailedUpsertKeepsDemotions ==
    [][OwnerUpsertFails =>
          /\ lastRet' = Ret("owner", boot.ownerID, FALSE, TRUE)
          /\ users' = users
          /\ OwnerIdsOf(users') \subseteq {boot.ownerID}
          /\ \A u \in boot.stale :
                \A d \in DocsFor(users', "user_id", u) : d["role"] = RoleAdmin
      ]_vars

\* EnsureOwner(9) has demoted owner 5 and then failed in its upsert: 5 is
\* admin and the store holds no owner
C33_Witness ==
    /\ lastRet = Ret("owner", 9, FALSE, TRUE)
    /\ boot = IdleBoot
    /\ OwnerIdsOf(users) = {}
    /\ Matching(users, "user_id", 9) = {}
    /\ \E d \in DocsFor(users, "user_id", 5) : d["role"] = RoleAdmin

\* the record differs from what it was in role and updated_at at most,
\* and these are the given ones
OnlyRoleAndUpdatedAt(old, new, role, now) ==
    /\ DOMAIN new = DOMAIN old \cup {"role", "updated_at"}
    /\ new["role"] = role
    /\ new["updated_at"] = now
    /\ \A f \in DOMAIN old \ {"role", "updated_at"} : new[f] = old[f]

\* C34: the demote step of EnsureOwner changes role (to admin) and
\* updated_at of the records with role owner and another user_id and
\* nothing else; the upsert step changes role (to owner) and updated_at of
\* ownerID's record when it exists and nothing else, and otherwise inserts
\* one record with user_id, role, updated_at and created_at; created_at of
\* an existing record is never written.
C34_EnsureOwnerFrame ==
    [][/\ (OwnerStepFrom("demote") /\ boot'.pc = "upsert") =>
             /\ Len(users') = Len(users)
             /\ \A i \in 1..Len(users) :
                   IF users[i]["role"] = RoleOwner
                      /\ users[i]["user_id"] # boot.ownerID
                   THEN OnlyRoleAndUpdatedAt(users[i], users'[i], RoleAdmin, boot.now)
                   ELSE users'[i] = users[i]
       /\ OwnerReturnsOk =>
             /\ \A i \in 1..Len(users) :
                   IF users[i]["user_id"] = boot.ownerID
                   THEN OnlyRoleAndUpdatedAt(users[i], users'[i], RoleOwner, boot.now)
                   ELSE users'[i] = users[i]
             /\ IF Matching(users, "user_id", boot.ownerID) # {}
                THEN Len(users') = Len(users)
                ELSE /\ Len(users') = Len(users) + 1
                     /\ users'[Len(users')] =
                           [user_id |-> boot.ownerID, role |-> RoleOwner,
                            updated_at |-> boot.now, created_at |-> boot.now]
      ]_vars

\* EnsureOwner(5) has promoted the existing user 5 at time 1 and demoted
\* owner 7: both keep created_at and last_seen_at 0 and have updated_at 1
C34_Witness ==
    /\ lastRet = Ret("owner", 5, FALSE, FALSE)
    /\ Len(users) = 2
    /\ \E d \in DocsFor(users, "user_id", 5) :
          /\ d["role"] = RoleOwner
          /\ d["created_at"] = 0 /\ d["last_seen_at"] = 0 /\ d["updated_at"] = 1
    /\ \E d \in DocsFor(users, "user_id", 7) :
          /\ d["role"] = RoleAdmin
          /\ d["created_at"] = 0 /\ d["last_seen_at"] = 0 /\ d["updated_at"] = 1

(***************************************************************************)
(* The order of the dispatcher's steps                                     *)
(***************************************************************************)
\* every position of the first set lies before every position of the second
AllBefore(first, second) == \A i \in first, j \in second : i < j

\* the records of each step of defaultHandler in the trace of the update
UserRecords ==
    Occurrences(trace, "call", {"EnsureUser"})
    \cup Occurrences(trace, "log", {"user_registration_failed"})

GroupRecords ==
    Occurrences(trace, "call", {"EnsureGroup"})
    \cup Occurrences(trace, "log", {"group_registration_failed"})

UpdateLogs == Occurrences(trace, "log", {"telegram_update"})

RouteLogs == Occurrences(trace, "log", {"telegram_route"})

\* what the invoked handler has logged, called and sent
HandlerRecords ==
    (1..Len(trace)) \ (UserRecords \cup GroupRecords \cup UpdateLogs \cup RouteLogs)

\* the names the handlers are routed under
HandlerNames ==
    {"command_start", "command_ping", "command_status", "command_unknown",
     "generic_message"}

\* C35: in the handling of every update the steps that take place come in
\* one order: the EnsureUser call, the EnsureGroup call, the one update log
\* record, the routing log naming the resolved handler, and then that
\* handler, whose first record names it; each of the calls and logs is
\* made at most once, and no handler runs without its routing log.
C35_FixedOrder ==
    /\ AllBefore(UserRecords, GroupRecords \cup UpdateLogs \cup RouteLogs \cup HandlerRecords)
    /\ AllBefore(GroupRecords, UpdateLogs \cup RouteLogs \cup HandlerRecords)
    /\ AllBefore(UpdateLogs, RouteLogs \cup HandlerRecords)
    /\ AllBefore(RouteLogs, HandlerRecords)
    /\ Cardinality(Occurrences(trace, "call", {"EnsureUser"})) <= 1
    /\ Cardinality(Occurrences(trace, "call", {"EnsureGroup"})) <= 1
    /\ Cardinality(UpdateLogs) <= 1
    /\ Cardinality(RouteLogs) <= 1
    /\ (RouteLogs # {} \/ HandlerRecords # {}) => Cardinality(UpdateLogs) = 1
    /\ HandlerRecords # {} => RouteLogs # {}
    /\ hpc \in HandlerNames =>
          /\ HandlerRecords = {}
          /\ \E i \in RouteLogs : trace[i].info = hpc
          /\ hpc = Target(extractUpdateMeta(update))
    /\ \A i \in RouteLogs, j \in HandlerRecords :
          (\A k \in HandlerRecords : j <= k) =>
             /\ j = i + 1
             /\ trace[j].kind = "log"
             /\ trace[j] \in {logCommandHandled(trace[i].info),
                               Log("generic_handler", trace[i].info)}

\* a /status message in a group chat has been handled: EnsureUser, then
\* EnsureGroup, the update log, the routing log, and the handler's records
C35_Witness ==
    /\ hpc = "idle"
    /\ Len(trace) >= 6
    /\ trace[1] = Call("EnsureUser", FALSE)
    /\ trace[2] = Call("EnsureGroup", FALSE)
    /\ trace[3] = Log("telegram_update", "message")
    /\ trace[4] = Log("telegram_route", "command_status")
    /\ trace[5] = logCommandHandled("command_status")
    /\ sent # <<>>

(***************************************************************************)
(* The handling of an update when the store may not answer                 *)
(***************************************************************************)
\* what the store does with an operation: it answers, it fails, or it
\* never answers
StoreAnswers == {"ok", "error", "silent"}

\* the operations issued under context.WithTimeout(ctx, ...): Ping under
\* pingMongoTimeout, GetByID under statusLookupTimeout, the two counts
\* under one statusCountTimeout; EnsureUser and EnsureGroup are handed the
\* handler's ctx as it is, which has no deadline
Deadline(op) == op \in {"Ping", "GetByID", "CountUsers", "CountGroups"}

\* the operation returns an error: the store's, or the deadline's
Fails(op, answer) == answer = "error" \/ (answer = "silent" /\ Deadline(op))

\* the operation does not return while the caller's context lives
Blocks(op, answer) == answer = "silent" /\ ~Deadline(op)

\* an operation that has been issued and has not returned
Waiting(name) == [kind |-> "call", name |-> name, info |-> "waiting"]

\* step 1 of defaultHandler with a store that may not answer
AwaitEnsureUser(answer) ==
    IF /\ Blocks("EnsureUser", answer)
       /\ wiring.userRegistrar
       /\ extractUpdateMeta(update).userID # 0
    THEN /\ hpc = "ensureUser"
         /\ hpc' = "waitEnsureUser"
         /\ trace' = Append(trace, Waiting("EnsureUser"))
         /\ UNCHANGED <<wiring, update, b, sent, handled, storeVars, mainVars>>
    ELSE RegisterUser(Fails("EnsureUser", answer))

\* step 2 of defaultHandler with a store that may not answer
AwaitEnsureGroup(answer) ==
    IF /\ Blocks("EnsureGroup", answer)
       /\ wiring.groupRegistrar
       /\ extractUpdateMeta(update).chatID # 0
       /\ normalizeChatType(extractUpdateMeta(update).chatType) = "group"
    THEN /\ hpc = "ensureGroup"
         /\ hpc' = "waitEnsureGroup"
         /\ trace' = Append(trace, Waiting("EnsureGroup"))
         /\ UNCHANGED <<wiring, update, b, sent, handled, storeVars, mainVars>>
    ELSE RegisterGroup(Fails("EnsureGroup", answer))

\* the context of the poll loop is cancelled (the process shuts down): the
\* operation that was waiting returns its error and the handling goes on
ContextCancelled ==
    /\ hpc \in {"waitEnsureUser", "waitEnsureGroup"}
    /\ LET issued == SubSeq(trace, 1, Len(trace) - 1) IN
       IF hpc = "waitEnsureUser"
       THEN /\ trace' = issued \o <<Call("EnsureUser", TRUE),
                                     Log("user_registration_failed", "")>>
            /\ hpc' = "ensureGroup"
       ELSE /\ trace' = issued \o <<Call("EnsureGroup", TRUE),
                                     Log("group_registration_failed", "")>>
            /\ hpc' = "route"
    /\ UNCHANGED <<wiring, update, b, sent, handled, storeVars, mainVars>>

\* pingCommandHandler with a store that may not answer
AwaitPing(answer, sendErr) == pingCommandHandler(Fails("Ping", answer), sendErr)

\* statusCommandHandler with a store that may not answer; CountGroups runs
\* under what CountUsers has left of statusCountTimeout
AwaitStatus(lookup, userCount, groupCount, sendErr) ==
    statusCommandHandler(Fails("GetByID", lookup),
                         Fails("CountUsers", userCount),
                         Fails("CountGroups", groupCount) \/ userCount = "silent",
                         sendErr)

NextUnresponsive ==
    \/ \E u \in Updates, client \in BOOLEAN : Deliver(u, client)
    \/ \E answer \in StoreAnswers : AwaitEnsureUser(answer)
    \/ \E answer \in StoreAnswers : AwaitEnsureGroup(answer)
    \/ ContextCancelled
    \/ LogAndRoute
    \/ \E sendErr \in BOOLEAN : startCommandHandler(sendErr)
    \/ \E answer \in StoreAnswers, sendErr \in BOOLEAN : AwaitPing(answer, sendErr)
    \/ \E lookup \in StoreAnswers, userCount \in StoreAnswers,
          groupCount \in StoreAnswers, sendErr \in BOOLEAN :
          AwaitStatus(lookup, userCount, groupCount, sendErr)
    \/ commandLoggerHandler
    \/ genericLoggerHandler

SpecUnresponsive == InitDispatch /\ [][NextUnresponsive]_vars

\* C36: every store operation issued while an update is handled
\* (EnsureUser, EnsureGroup, the /status role lookup, both counts, the
\* /ping check) runs under a deadline derived from the caller's context,
\* so no handling of an update waits on a store that does not answer: no
\* operation is ever waiting without a deadline.
C36_StoreCallsBounded ==
    /\ hpc \notin {"waitEnsureUser", "waitEnsureGroup"}
    /\ \A i \in 1..Len(trace) : trace[i] # Waiting(trace[i].name)

(***************************************************************************)
(* Which updates are routed                                                *)
(***************************************************************************)
\* the handling of the update is over and its update log has been written
Handled == hpc = "idle" /\ UpdateLogs # {}

\* C37: a routing log is written and a handler invoked if and only if the
\* update is a message or an edited_message: the handling of a
\* callback_query, my_chat_member, chat_member or unknown update ends with
\* the update log, also when its text begins with "/", and an
\* edited_message is routed by its text as a message is, a command to the
\* command's handler.
C37_RoutedIffMessage ==
    LET meta == extractUpdateMeta(update) IN
    /\ (RouteLogs # {} \/ HandlerRecords # {} \/ hpc \in HandlerNames \/ sent # <<>>) =>
          update.kind \in {"message", "edited_message"}
    /\ (Handled /\ update.kind \in {"message", "edited_message"}) =>
          /\ Cardinality(RouteLogs) = 1
          /\ HandlerRecords # {}
          /\ \A i \in RouteLogs :
                trace[i].info = IF isCommand(meta.text)
                                THEN commandHandlers(commandName(meta.text))
                                ELSE "generic_message"
    /\ (Handled /\ update.kind \notin {"message", "edited_message"}) =>
          trace[Len(trace)] = Log("telegram_update", meta.updateType)

\* an edited message whose text is /status has been routed to the /status
\* handler, which has replied
C37_Witness ==
    /\ Handled
    /\ update.kind = "edited_message"
    /\ Has(Log("telegram_route", "command_status"))
    /\ Has(logCommandHandled("command_status"))
    /\ sent # <<>>

(***************************************************************************)
(* Replies that cannot be sent                                             *)
(***************************************************************************)
\* the handlers that reply
ReplyingHandlers == {"command_start", "command_ping", "command_status"}

\* the event under which a replying handler reports a failed send
SendFailedEvent(handlerName) ==
    CASE handlerName = "command_start" -> "command_start_send_failed"
      [] handlerName = "command_ping" -> "command_ping_send_failed"
      [] handlerName = "command_status" -> "command_status_send_failed"

\* a replying handler has run on an update without a chat id, or without
\* a client
CannotSend ==
    LET meta == extractUpdateMeta(update) IN
    /\ Handled
    /\ primaryMessage(update)
    /\ Target(meta) \in ReplyingHandlers
    /\ (meta.chatID = 0 \/ ~b)

\* nothing has gone to the sender
NothingSent ==
    /\ Occurrences(trace, "call", {"SendMessage"}) = {}
    /\ sent = <<>>

\* C38 as stated: for each of /start, /ping and /status, when the update
\* carries no chat id, or the client is missing, no send call is made and
\* the absence is logged as a send failure.
C38_NoChatOrClientIsSendFailure ==
    CannotSend
    => /\ NothingSent
       /\ Occurrences(trace, "log",
                      {SendFailedEvent(Target(extractUpdateMeta(update)))}) # {}

\* C38, amended: for each of /start, /ping and /status, when the update
\* carries no chat id, or the client is missing, no send call is made; the
\* absence is logged as a send failure by /ping and /status, and by /start
\* in a private chat, while /start outside a private chat logs the update
\* as ignored and logs no send failure.
C38_NoChatOrClientNeverSends ==
    LET meta == extractUpdateMeta(update)
        failures == Occurrences(trace, "log", {SendFailedEvent(Target(meta))})
        ignored == Occurrences(trace, "log", {"command_start_ignored"})
    IN CannotSend
       => /\ NothingSent
          /\ IF /\ Target(meta) = "command_start"
                /\ normalizeChatType(meta.chatType) # "private"
             THEN Cardinality(ignored) = 1 /\ failures = {}
             ELSE Cardinality(failures) = 1 /\ ignored = {}

\* /start arrived in a private chat while the client was missing: the send
\* failure is logged and nothing is sent
C38_Witness ==
    LET meta == extractUpdateMeta(update) IN
    /\ CannotSend
    /\ ~b
    /\ meta.chatID # 0
    /\ Target(meta) = "command_start"
    /\ normalizeChatType(meta.chatType) = "private"
    /\ Has(Log("command_start_send_failed", ""))
    /\ NothingSent

(***************************************************************************)
(* Who sends                                                               *)
(***************************************************************************)
\* the handlers that only log
LoggingHandlers == {"command_unknown", "generic_message"}

\* the sender has been called, or a message has gone out
SenderCalled ==
    \/ Occurrences(trace, "call", {"SendMessage"}) # {}
    \/ sent # <<>>

\* C39: the unknown-command path and the generic-message path never call
\* the sender: a message is sent only while the update in hand is routed to
\* the /start, /ping or /status handler, and the handling of an update
\* routed to the unknown-command or the generic-message logger ends with
\* nothing sent.
C39_OnlyReplyingHandlersSend ==
    LET meta == extractUpdateMeta(update) IN
    /\ SenderCalled
       => /\ primaryMessage(update)
          /\ Target(meta) \in ReplyingHandlers
          /\ \E i \in RouteLogs : trace[i].info = Target(meta)
          /\ Has(logCommandHandled(Target(meta)))
    /\ (primaryMessage(update) /\ Target(meta) \in LoggingHandlers) => NothingSent

\* an unregistered command arrived with a chat id while the client was
\* there: the unknown-command logger ran and nothing was sent
C39_Witness ==
    LET meta == extractUpdateMeta(update) IN
    /\ Handled
    /\ primaryMessage(update)
    /\ Target(meta) = "command_unknown"
    /\ meta.chatID # 0
    /\ b
    /\ Has(logCommandHandled("command_unknown"))
    /\ NothingSent

====
